---- MODULE Spec2Model ----
(***************************************************************************)
(* arb-scanner: the paper executor (arb_scanner/paper_executor.py), its    *)
(* SQLite store (arb_scanner/storage.py) and the daemon loop (daemon.py).  *)
(*                                                                         *)
(* Units: prices are integer cents (100 = probability 1.0), sizes are      *)
(* contracts, money is cents (price * size), buffered edges are in         *)
(* millionths (1000000 = 1.0), time is integer seconds.                    *)
(*                                                                         *)
(* Every Storage.paper_* helper ends with conn.commit(), so every write is *)
(* its own transaction: each executor step below is one commit.            *)
(***************************************************************************)
EXTENDS Integers, Sequences, FiniteSets, TLC

VARIABLES
    clock,            \* wall clock, time.time()
    pc,               \* control position of the process
    ret,              \* pc at which the caller of the executor continues
    paper_state,      \* table paper_state: key -> value
    paper_trades,     \* table paper_trades, in rowid order
    paper_orders,     \* table paper_orders, in rowid order
    plan,             \* argument of the running try_execute
    loc,              \* locals of the running executor operation
    result,           \* value returned by the last executor operation
    pre,              \* store contents when the running operation was called
    initial_bankroll, \* bankroll written by the last balance initialisation
    dry_run,          \* ScannerConfig.dry_run of the environment
    runs,             \* number of rows of table runs
    exit_code,        \* exit status of the last terminated process
    started,          \* what main() has done since the process was launched
    botctl_file,      \* content of the control-plane switch file
    botctl_cache,     \* main: botctl_cache
    last_botctl_ts,   \* main: last_botctl_ts
    last_settle_ts,   \* main: last_settle_ts
    last_trade_by_key,\* main: last_trade_by_key
    now,              \* main: now of the running iteration
    snaps,            \* main: snaps_k / snaps_p of the running iteration
    ts,               \* main: ts of the rows of the running iteration
    rows,             \* table snapshots, the rows of the running iteration
    signals,          \* table signals, the rows of the running iteration
    dir,              \* direction being evaluated (1: K yes + P no, 2: P yes + K no)
    attempt,          \* Backoff.attempt
    batch_size,       \* args.batch_size
    kalshi_universe,  \* main: kalshi_universe, a sorted list of tickers
    last_refresh,     \* main: last_refresh
    cursor,           \* main: cursor
    cursor_file,      \* content of the cursor file (args.state_path)
    batch,            \* main: batch of the running iteration
    visited,          \* tickers selected since the universe was last set
    iters,            \* iterations completed since the universe was last set
    refresh,          \* outcome of the universe refresh of the running iteration
    failed_batch,     \* the batch whose snapshot fetch failed last, if not fetched since
    sleep,            \* delay of the running backoff sleep
    saved_old,        \* what load_cursor returned before the last save_cursor began
    saved_new,        \* the cursor the last save_cursor was called with
    keep_secs,        \* snapshot retention (SNAPSHOT_TTL_DAYS), 0: no pruning
    quotes_on,        \* the top-of-book quotes the venue may give for a ticker
    listed_max,       \* how many markets the venue may list as open
    snapshots,        \* main: snapshots fetched for the batch
    tbl_snapshots,    \* table snapshots
    tbl_signals,      \* table signals
    last_prune_ts,    \* main: last_prune_ts
    inserted,         \* value returned by the last insert_snapshots
    botctl_tmp,       \* botctl._write: content of the file path + ".tmp"
    data,             \* botctl._write: the state being written, "none" when idle
    config,           \* scanner: the ScannerConfig of load_config / apply_mode
    snapshots_a,      \* scanner: snapshots of venue A
    snapshots_b,      \* scanner: snapshots of venue B, empty in intra-venue mode
    resolved_mappings,\* scanner: the manual mappings, empty when pairing by question
    opps,             \* scanner: outcome of compute_opportunities*
    near_miss,        \* scanner: rows of format_near_miss_pairs_table*
    scan_pc,          \* scanner: position of the CLI's main
    payload,          \* Kalshi: the orderbook the venue returns for the ticker
    market_raw,       \* Polymarket: the Gamma market the venue returns for the slug
    env,              \* process environment and arguments read by provider and scan
    http              \* venue HTTP client: the request in progress and its outcome

storeVars == <<paper_state, paper_trades, paper_orders>>
execVars == <<pc, ret, plan, loc, result, pre>>
kalshiVars == <<batch_size, kalshi_universe, last_refresh, cursor, cursor_file, batch,
                visited, iters, refresh, failed_batch, sleep, saved_old, saved_new,
                keep_secs, quotes_on, listed_max, snapshots, tbl_snapshots, tbl_signals, last_prune_ts,
                inserted>>
saveGhost == <<saved_old, saved_new>>
tableVars == <<keep_secs, quotes_on, listed_max, snapshots, tbl_snapshots, tbl_signals, last_prune_ts,
               inserted>>
ctlVars == <<botctl_tmp, data>>
scanVars == <<config, snapshots_a, snapshots_b, resolved_mappings, opps, near_miss, scan_pc,
              payload, market_raw, env, http>>
daemonVars == <<dry_run, scanVars, kalshiVars, runs, exit_code, started, botctl_file, ctlVars, botctl_cache,
                last_botctl_ts, last_settle_ts, last_trade_by_key, now,
                snaps, ts, rows, signals, dir, attempt>>
vars == <<clock, storeVars, execVars, initial_bankroll, daemonVars>>

-----------------------------------------------------------------------------
(* Bounds of the model *)

MaxTime == 3
MaxTrades == 2
MaxRuns == 2
MaxAttempt == 1
MaxIters == 3
MaxBatch == 3
MaxFailures == 3
MaxUniverse == 3
Epoch == 100

(* Program constants and configuration values *)

SettleAfterSecs == 2
MinFreeBalance == 0
OpenTradesLimit == 10000
PaperBankrollEnv == 100000
FeeBufferBps == 25
MinExecutableSize == 1
AlertThreshold == 20000
DefaultMaxPerTrade == 5000
DefaultBankroll == 100000
BotctlPollSecs == 2
SettleEverySecs == 1
TradeCooldownSecs == 2
RefreshMarketsSecs == 2
BackoffBase == 10
BackoffFactor == 2
BackoffCap == 30
JitterPct == 20
SigintExit == 130
InternalFloor == 0 - 20000
InternalCeiling == 20000
PruneEverySecs == 1
KeepSecs == 1

NULL == 0 - 1
NoPlan == [kind |-> "none"]
NoLoc == [op |-> "none"]
NoResult == [op |-> "none"]
NoPre == [op |-> "none"]

Min(a, b) == IF a <= b THEN a ELSE b
Max(a, b) == IF a >= b THEN a ELSE b

-----------------------------------------------------------------------------
(* Storage: table paper_state *)

paper_get(st, key, default) ==
    IF key \in DOMAIN st THEN st[key] ELSE default

paper_has(st, key) == key \in DOMAIN st

paper_set(st, key, value) ==
    [k \in (DOMAIN st) \cup {key} |-> IF k = key THEN value ELSE st[k]]

balances(st) ==
    [free   |-> paper_get(st, "free_balance", 0),
     locked |-> paper_get(st, "locked_balance", 0),
     pnl    |-> paper_get(st, "realized_pnl", 0)]

(* Storage: tables paper_trades and paper_orders *)

paper_insert_trade(trades, trade_id, ts_open, p, expected_profit) ==
    Append(trades,
           [trade_id |-> trade_id, ts_open |-> ts_open, ts_close |-> NULL,
            status |-> "open", kind |-> p.kind, size |-> p.size,
            sum_price |-> p.sum_price, buf_edge |-> p.buf_edge,
            expected_profit |-> expected_profit,
            legs |-> [i \in 1..2 |->
                        [venue |-> p.legs[i].venue, market_id |-> p.legs[i].market_id,
                         side |-> p.legs[i].side, action |-> p.legs[i].action,
                         price |-> p.legs[i].price, size |-> p.size]],
            details |-> p.details])

paper_close_trade(trades, trade_id, ts_close) ==
    [i \in DOMAIN trades |->
        IF trades[i].trade_id = trade_id
        THEN [trades[i] EXCEPT !.ts_close = ts_close, !.status = "closed"]
        ELSE trades[i]]

paper_insert_order(orders, trade_id, t, leg, size) ==
    Append(orders,
           [trade_id |-> trade_id, ts |-> t, venue |-> leg.venue,
            market_id |-> leg.market_id, side |-> leg.side,
            action |-> leg.action, price |-> leg.price, size |-> size,
            status |-> "filled", filled_size |-> size])

RECURSIVE InsertByTsOpen(_, _)
InsertByTsOpen(sorted, t) ==
    IF sorted = <<>> THEN <<t>>
    ELSE IF Head(sorted).ts_open <= t.ts_open
         THEN <<Head(sorted)>> \o InsertByTsOpen(Tail(sorted), t)
         ELSE <<t>> \o sorted

RECURSIVE OrderByTsOpen(_)
OrderByTsOpen(s) ==
    IF s = <<>> THEN <<>>
    ELSE InsertByTsOpen(OrderByTsOpen(SubSeq(s, 1, Len(s) - 1)), s[Len(s)])

IsOpen(t) == t.status = "open"

paper_list_open_trades(trades, limit) ==
    LET open == OrderByTsOpen(SelectSeq(trades, IsOpen))
    IN  SubSeq(open, 1, Min(Len(open), limit))

-----------------------------------------------------------------------------
(* Derived quantities of the store *)

TradeCost(t) == t.sum_price * t.size

RECURSIVE SumOver(_, _, _)
SumOver(seq, status, field) ==
    IF seq = <<>> THEN 0
    ELSE (IF Head(seq).status = status
          THEN (IF field = "cost" THEN TradeCost(Head(seq)) ELSE Head(seq).expected_profit)
          ELSE 0) + SumOver(Tail(seq), status, field)

OpenCost == SumOver(paper_trades, "open", "cost")
ClosedProfit == SumOver(paper_trades, "closed", "profit")
Bal == balances(paper_state)
OrdersOf(id) == {i \in DOMAIN paper_orders : paper_orders[i].trade_id = id}
TradeIds == {paper_trades[i].trade_id : i \in DOMAIN paper_trades}
OrderTradeIds == {paper_orders[i].trade_id : i \in DOMAIN paper_orders}

(* uuid.uuid4(): an identifier that no stored row carries *)
uuid4 ==
    LET used == TradeIds \cup OrderTradeIds
    IN  IF used = {} THEN 1 ELSE 1 + CHOOSE m \in used : \A x \in used : x <= m

-----------------------------------------------------------------------------
(* Evaluator arithmetic (daemon.py fee_buffer and the buf_edge lines),     *)
(* in millionths: cost cents c is c/100, so 1 - c/100 - (c/100)*bps/10000  *)
(* is (1000000 - 10000*c - c*bps) / 1000000.                               *)

fee_buffer(cost, fee_buffer_bps) == cost * fee_buffer_bps

BufEdge(cost) == (1000000 - 10000 * cost) - fee_buffer(cost, FeeBufferBps)

Leg(venue, market_id, side, action, price, size_avail) ==
    [venue |-> venue, market_id |-> market_id, side |-> side,
     action |-> action, price |-> price, size_avail |-> size_avail]

TradePlan(kind, buf_edge, sum_price, size, legs, details) ==
    [kind |-> kind, buf_edge |-> buf_edge, sum_price |-> sum_price,
     size |-> size, legs |-> legs, details |-> details]

-----------------------------------------------------------------------------
(* Volatile state of a process that is not running *)

VolatileReset ==
    /\ ret' = "none"
    /\ plan' = NoPlan
    /\ loc' = NoLoc
    /\ result' = NoResult
    /\ pre' = NoPre

StoreSnapshot(op) ==
    [op |-> op, paper_state |-> paper_state, paper_trades |-> paper_trades,
     paper_orders |-> paper_orders]

-----------------------------------------------------------------------------
(* PaperExecutor.__init__: initialise the balances if free_balance is absent *)

PaperExecutorInit(r) ==
    /\ IF ~paper_has(paper_state, "free_balance")
       THEN /\ paper_state' = paper_set(paper_state, "free_balance", PaperBankrollEnv)
            /\ initial_bankroll' = PaperBankrollEnv
            /\ pc' = "ctor_locked"
            /\ ret' = r
       ELSE /\ pc' = r
            /\ ret' = "none"
            /\ UNCHANGED <<paper_state, initial_bankroll>>
    /\ UNCHANGED <<paper_trades, paper_orders, plan, loc, result, pre, clock>>

CtorSetLocked ==
    /\ pc = "ctor_locked"
    /\ paper_state' = paper_set(paper_state, "locked_balance", 0)
    /\ pc' = "ctor_pnl"
    /\ UNCHANGED <<paper_trades, paper_orders, ret, plan, loc, result, pre,
                   clock, initial_bankroll, daemonVars>>

CtorSetPnl ==
    /\ pc = "ctor_pnl"
    /\ paper_state' = paper_set(paper_state, "realized_pnl", 0)
    /\ pc' = ret
    /\ ret' = "none"
    /\ UNCHANGED <<paper_trades, paper_orders, plan, loc, result, pre,
                   clock, initial_bankroll, daemonVars>>

-----------------------------------------------------------------------------
(* PaperExecutor.try_execute *)

ShortLegs(p) == {i \in 1..2 : p.legs[i].size_avail < p.size}

InsufficientBalance_le(free, p) == free - p.sum_price * p.size <= MinFreeBalance

InsufficientBalance(free, p) == free - p.sum_price * p.size < MinFreeBalance

TryExecuteCall(p, r) ==
    LET b == balances(paper_state) IN
    /\ plan' = p
    /\ pre' = StoreSnapshot("try_execute")
    /\ IF ShortLegs(p) # {}
       THEN /\ result' = [op |-> "try_execute", ok |-> FALSE, reason |-> "insufficient_liquidity"]
            /\ pc' = r
            /\ ret' = "none"
            /\ UNCHANGED loc
       ELSE IF InsufficientBalance(b.free, p)
       THEN /\ result' = [op |-> "try_execute", ok |-> FALSE, reason |-> "insufficient_balance"]
            /\ pc' = r
            /\ ret' = "none"
            /\ UNCHANGED loc
       ELSE /\ result' = NoResult
            /\ pc' = "x_order"
            /\ ret' = r
            /\ loc' = [op |-> "try_execute", now |-> clock, free |-> b.free,
                       locked |-> b.locked, pnl |-> b.pnl,
                       cost |-> p.sum_price * p.size,
                       trade_id |-> uuid4, leg |-> 1]
    /\ UNCHANGED <<storeVars, clock, initial_bankroll>>

XInsertOrder ==
    /\ pc = "x_order"
    /\ paper_orders' = paper_insert_order(paper_orders, loc.trade_id, loc.now,
                                          plan.legs[loc.leg], plan.size)
    /\ IF loc.leg < 2
       THEN /\ loc' = [loc EXCEPT !.leg = @ + 1]
            /\ pc' = "x_order"
       ELSE /\ loc' = loc
            /\ pc' = "x_trade"
    /\ UNCHANGED <<paper_state, paper_trades, ret, plan, result, pre,
                   clock, initial_bankroll, daemonVars>>

ExpectedProfit_mis(p) == 100 - p.sum_price * p.size

ExpectedProfit(p) == (100 - p.sum_price) * p.size

XInsertTrade ==
    /\ pc = "x_trade"
    /\ paper_trades' = paper_insert_trade(paper_trades, loc.trade_id, loc.now, plan,
                                          ExpectedProfit(plan))
    /\ pc' = "x_free"
    /\ UNCHANGED <<paper_state, paper_orders, ret, plan, loc, result, pre,
                   clock, initial_bankroll, daemonVars>>

XSetFree ==
    /\ pc = "x_free"
    /\ paper_state' = paper_set(paper_state, "free_balance", loc.free - loc.cost)
    /\ pc' = "x_locked"
    /\ UNCHANGED <<paper_trades, paper_orders, ret, plan, loc, result, pre,
                   clock, initial_bankroll, daemonVars>>

XSetLocked ==
    /\ pc = "x_locked"
    /\ paper_state' = paper_set(paper_state, "locked_balance", loc.locked + loc.cost)
    /\ pc' = "x_pnl"
    /\ UNCHANGED <<paper_trades, paper_orders, ret, plan, loc, result, pre,
                   clock, initial_bankroll, daemonVars>>

XSetPnl ==
    /\ pc = "x_pnl"
    /\ paper_state' = paper_set(paper_state, "realized_pnl", loc.pnl)
    /\ result' = [op |-> "try_execute", ok |-> TRUE, reason |-> "executed",
                  trade_id |-> loc.trade_id]
    /\ pc' = ret
    /\ ret' = "none"
    /\ loc' = NoLoc
    /\ UNCHANGED <<paper_trades, paper_orders, plan, pre,
                   clock, initial_bankroll, daemonVars>>

-----------------------------------------------------------------------------
(* PaperExecutor.maybe_settle *)

SettleNext(l) ==
    IF l.i <= Len(l.open_trades) THEN "s_loop"
    ELSE IF l.n_closed > 0 THEN "s_free" ELSE "return"

MaybeSettleCall(r) ==
    LET open_trades == paper_list_open_trades(paper_trades, OpenTradesLimit)
        b == balances(paper_state)
    IN
    /\ pre' = StoreSnapshot("maybe_settle")
    /\ IF open_trades = <<>>
       THEN /\ result' = [op |-> "maybe_settle", n_closed |-> 0]
            /\ pc' = r
            /\ ret' = "none"
            /\ loc' = NoLoc
       ELSE /\ result' = NoResult
            /\ pc' = "s_loop"
            /\ ret' = r
            /\ loc' = [op |-> "maybe_settle", now |-> clock, open_trades |-> open_trades,
                       i |-> 1, free |-> b.free, locked |-> b.locked, pnl |-> b.pnl,
                       n_closed |-> 0]
    /\ UNCHANGED <<storeVars, plan, clock, initial_bankroll>>

Mature_early(t, at) == TRUE

Mature(t, at) == ~(at - t.ts_open < SettleAfterSecs)

SettleTrade_unclamped(l, t) ==
    [l EXCEPT !.locked = l.locked - TradeCost(t),
              !.free = l.free + TradeCost(t) + t.expected_profit,
              !.pnl = l.pnl + t.expected_profit,
              !.n_closed = l.n_closed + 1,
              !.i = l.i + 1]

SettleTrade(l, t) ==
    [l EXCEPT !.locked = Max(0, l.locked - TradeCost(t)),
              !.free = l.free + TradeCost(t) + t.expected_profit,
              !.pnl = l.pnl + t.expected_profit,
              !.n_closed = l.n_closed + 1,
              !.i = l.i + 1]

SLoop ==
    /\ pc = "s_loop"
    /\ LET t == loc.open_trades[loc.i]
           l2 == IF Mature(t, loc.now) THEN SettleTrade(loc, t)
                 ELSE [loc EXCEPT !.i = @ + 1]
       IN
       /\ paper_trades' = IF Mature(t, loc.now)
                          THEN paper_close_trade(paper_trades, t.trade_id, loc.now)
                          ELSE paper_trades
       /\ IF SettleNext(l2) = "return"
          THEN /\ result' = [op |-> "maybe_settle", n_closed |-> 0]
               /\ pc' = ret
               /\ ret' = "none"
               /\ loc' = NoLoc
          ELSE /\ pc' = SettleNext(l2)
               /\ loc' = l2
               /\ UNCHANGED <<result, ret>>
    /\ UNCHANGED <<paper_state, paper_orders, plan, pre,
                   clock, initial_bankroll, daemonVars>>

SSetFree ==
    /\ pc = "s_free"
    /\ paper_state' = paper_set(paper_state, "free_balance", loc.free)
    /\ pc' = "s_locked"
    /\ UNCHANGED <<paper_trades, paper_orders, ret, plan, loc, result, pre,
                   clock, initial_bankroll, daemonVars>>

SSetLocked ==
    /\ pc = "s_locked"
    /\ paper_state' = paper_set(paper_state, "locked_balance", loc.locked)
    /\ pc' = "s_pnl"
    /\ UNCHANGED <<paper_trades, paper_orders, ret, plan, loc, result, pre,
                   clock, initial_bankroll, daemonVars>>

SSetPnl ==
    /\ pc = "s_pnl"
    /\ paper_state' = paper_set(paper_state, "realized_pnl", loc.pnl)
    /\ result' = [op |-> "maybe_settle", n_closed |-> loc.n_closed]
    /\ pc' = ret
    /\ ret' = "none"
    /\ loc' = NoLoc
    /\ UNCHANGED <<paper_trades, paper_orders, plan, pre,
                   clock, initial_bankroll, daemonVars>>

ExecutorStep ==
    \/ CtorSetLocked \/ CtorSetPnl
    \/ XInsertOrder \/ XInsertTrade \/ XSetFree \/ XSetLocked \/ XSetPnl
    \/ SLoop \/ SSetFree \/ SSetLocked \/ SSetPnl

-----------------------------------------------------------------------------
(* Initial state: empty store, no process running *)

NoSnaps == [fetched |-> FALSE]

(* Content of the cursor file: absent, cut short, or {"cursor": c, ...} *)
NoFile == [state |-> "missing", cursor |-> 0]
PartialFile == [state |-> "partial", cursor |-> 0]
CursorJson(c) == [state |-> "json", cursor |-> c]

(* The Kalshi internal scan is off (no --use-kalshi): its locals never move *)
KalshiOff ==
    /\ batch_size = 1
    /\ kalshi_universe = <<>>
    /\ last_refresh = 0
    /\ cursor = 0
    /\ cursor_file = NoFile
    /\ batch = <<>>
    /\ visited = {}
    /\ iters = 0
    /\ refresh = "none"
    /\ failed_batch = <<>>
    /\ sleep = 0
    /\ saved_old = 0
    /\ saved_new = 0
    /\ keep_secs = 0
    /\ quotes_on = {"none"}
    /\ listed_max = MaxUniverse
    /\ snapshots = <<>>
    /\ tbl_snapshots = {}
    /\ tbl_signals = {}
    /\ last_prune_ts = 0
    /\ inserted = 0

NoConfig == [mode |-> "none"]
NotCalled == [called |-> FALSE]
NoPayload == [kind |-> "none"]
NoEnv == [kind |-> "default"]

(* no HTTP request has been issued *)
NoHttp == [outcome |-> "none"]

(* the scanner CLI is not running *)
ScannerIdle ==
    /\ config = NoConfig
    /\ snapshots_a = <<>>
    /\ snapshots_b = <<>>
    /\ resolved_mappings = <<>>
    /\ opps = NotCalled
    /\ near_miss = NotCalled
    /\ scan_pc = "idle"
    /\ payload = NoPayload
    /\ market_raw = NoPayload
    /\ env = NoEnv
    /\ http = NoHttp

InitDaemon ==
    /\ clock = Epoch
    /\ pc = "start"
    /\ ret = "none"
    /\ paper_state = <<>>
    /\ paper_trades = <<>>
    /\ paper_orders = <<>>
    /\ plan = NoPlan
    /\ loc = NoLoc
    /\ result = NoResult
    /\ pre = NoPre
    /\ initial_bankroll = 0
    /\ dry_run \in BOOLEAN
    /\ runs = 0
    /\ exit_code = NULL
    /\ started = {}
    /\ botctl_file = "missing"
    /\ botctl_tmp = "missing"
    /\ data = "none"
    /\ botctl_cache = <<>>
    /\ last_botctl_ts = 0
    /\ last_settle_ts = 0
    /\ last_trade_by_key = <<>>
    /\ now = 0
    /\ snaps = NoSnaps
    /\ ts = 0
    /\ rows = {}
    /\ signals = {}
    /\ dir = 0
    /\ attempt = 0

InitCore == InitDaemon /\ ScannerIdle

Init == InitCore /\ KalshiOff

-----------------------------------------------------------------------------
(* The paper executor driven by an arbitrary caller: any plan, any order   *)
(* of try_execute and maybe_settle, a process stop at any commit boundary. *)

PlanPrices == {80, 100}
PlanSizes == {500, 1000}
LegSizes == {500, 1000}

Plans ==
    {TradePlan("cross_venue", BufEdge(sp), sp, sz,
               <<Leg("Kalshi", "K1", "YES", "BUY", sp - 50, a1),
                 Leg("Polymarket", "P1", "NO", "BUY", 50, a2)>>,
               "paper: buy YES@kalshi + NO@poly")
       : <<sp, sz, a1, a2>> \in PlanPrices \X PlanSizes \X LegSizes \X {1000}}

PX_Launch ==
    /\ pc = "start"
    /\ runs < MaxRuns
    /\ runs' = runs + 1
    /\ PaperExecutorInit("idle")
    /\ UNCHANGED <<dry_run, scanVars, kalshiVars, exit_code, started, botctl_file, ctlVars, botctl_cache,
                   last_botctl_ts, last_settle_ts, last_trade_by_key, now,
                   snaps, ts, rows, signals, dir, attempt>>

PX_TryExecute ==
    /\ pc = "idle"
    /\ Len(paper_trades) < MaxTrades
    /\ Len(paper_orders) < 2 * MaxTrades
    /\ \E p \in Plans : TryExecuteCall(p, "idle")
    /\ UNCHANGED daemonVars

PX_MaybeSettle ==
    /\ pc = "idle"
    /\ MaybeSettleCall("idle")
    /\ UNCHANGED daemonVars

PX_Tick ==
    /\ pc \in {"idle", "start"}
    /\ clock < Epoch + MaxTime
    /\ clock' = clock + 1
    /\ plan' = NoPlan
    /\ result' = NoResult
    /\ pre' = NoPre
    /\ UNCHANGED <<storeVars, pc, ret, loc, initial_bankroll, daemonVars>>

PX_Stop ==
    /\ pc # "start"
    /\ pc' = "start"
    /\ VolatileReset
    /\ UNCHANGED <<storeVars, clock, initial_bankroll, daemonVars>>

NextPaper ==
    \/ PX_Launch \/ PX_TryExecute \/ PX_MaybeSettle \/ PX_Tick \/ PX_Stop
    \/ ExecutorStep

InitPaper == Init /\ dry_run = TRUE

SpecPaper == InitPaper /\ [][NextPaper]_vars

-----------------------------------------------------------------------------
(* Claims about the paper executor, checked under SpecPaper *)

ExecPcs == {"x_order", "x_trade", "x_free", "x_locked", "x_pnl"}
SettlePcs == {"s_loop", "s_free", "s_locked", "s_pnl"}

RECURSIVE SumSet(_, _)
SumSet(f, S) ==
    IF S = {} THEN 0
    ELSE LET x == CHOOSE y \in S : TRUE IN f[x] + SumSet(f, S \ {x})

(* C1: paper ledger invariant. At every commit boundary the stored         *)
(* free_balance + locked_balance equals the initial bankroll plus the      *)
(* stored realized_pnl.                                                    *)
C1_LedgerInvariant ==
    Bal.free + Bal.locked = initial_bankroll + Bal.pnl

(* C2: try_execute is one atomic unit. When the process is stopped the     *)
(* store holds all of a trade's writes or none (every order belongs to a   *)
(* stored trade, every trade has its two orders), and in no state is there *)
(* an open trade whose cost is missing from locked_balance.                *)
C2_TryExecuteAtomic ==
    /\ pc = "start" =>
          /\ \A id \in OrderTradeIds : id \in TradeIds
          /\ \A id \in TradeIds : Cardinality(OrdersOf(id)) = 2
    /\ OpenCost <= Bal.locked

(* C3: settlement is exactly-once. Outside a running maybe_settle (also    *)
(* after a stop inside it and a restart) realized_pnl holds the expected   *)
(* profit of every closed trade exactly once.                              *)
C3_SettleExactlyOnce ==
    pc \notin SettlePcs => Bal.pnl = ClosedProfit

(* C4: try_execute returns ok=false without side effects exactly when a    *)
(* leg has size_avail < plan.size (insufficient_liquidity) or              *)
(* free - size*sum_price < min_free_balance (insufficient_balance), and    *)
(* proceeds to ok=true otherwise.                                          *)
C4_TryExecuteRejects ==
    LET free0 == IF "free_balance" \in DOMAIN pre.paper_state
                 THEN pre.paper_state["free_balance"] ELSE 0
        short == \E i \in 1..2 : plan.legs[i].size_avail < plan.size
        poor  == free0 - plan.size * plan.sum_price < 0
    IN
    /\ (result.op = "try_execute" /\ ~result.ok) =>
          /\ short \/ poor
          /\ result.reason = (IF short THEN "insufficient_liquidity"
                                       ELSE "insufficient_balance")
          /\ paper_state = pre.paper_state
          /\ paper_trades = pre.paper_trades
          /\ paper_orders = pre.paper_orders
    /\ (result.op = "try_execute" /\ result.ok) => (~short /\ ~poor)
    /\ pc \in ExecPcs => (~short /\ ~poor)

C4_Witness ==
    /\ result.op = "try_execute"
    /\ ~result.ok
    /\ result.reason = "insufficient_balance"
    /\ paper_trades # <<>>

(* C5: a successful try_execute adds exactly two filled orders of size     *)
(* plan.size carrying the new trade id, one open trade with ts_close null  *)
(* and expected_profit = (1 - sum_price) * size, and moves cost =          *)
(* size * sum_price from free to locked with realized_pnl unchanged.       *)
C5_TryExecuteEffect ==
    (result.op = "try_execute" /\ result.ok) =>
      LET id == result.trade_id
          b0 == balances(pre.paper_state)
          cost == plan.size * plan.sum_price
          n == Len(pre.paper_orders)
          m == Len(pre.paper_trades)
      IN
      /\ Len(paper_orders) = n + 2
      /\ SubSeq(paper_orders, 1, n) = pre.paper_orders
      /\ \A i \in {n + 1, n + 2} :
            /\ paper_orders[i].trade_id = id
            /\ paper_orders[i].status = "filled"
            /\ paper_orders[i].size = plan.size
            /\ paper_orders[i].filled_size = plan.size
      /\ \A i \in 1..n : pre.paper_orders[i].trade_id # id
      /\ Len(paper_trades) = m + 1
      /\ SubSeq(paper_trades, 1, m) = pre.paper_trades
      /\ \A i \in 1..m : pre.paper_trades[i].trade_id # id
      /\ paper_trades[m + 1].trade_id = id
      /\ paper_trades[m + 1].status = "open"
      /\ paper_trades[m + 1].ts_close = NULL
      /\ paper_trades[m + 1].expected_profit = (100 - plan.sum_price) * plan.size
      /\ Bal.free = b0.free - cost
      /\ Bal.locked = b0.locked + cost
      /\ Bal.pnl = b0.pnl

C5_Witness ==
    /\ result.op = "try_execute"
    /\ result.ok
    /\ Len(paper_trades) = 2
    /\ Bal.locked > plan.size * plan.sum_price

(* C6: maybe_settle closes exactly the open trades with                    *)
(* ts_open + settle_after_secs <= now, oldest first, leaves the others     *)
(* untouched, returns the number closed, and per closed trade moves cost   *)
(* out of locked, cost + expected_profit into free and expected_profit     *)
(* into realized_pnl.                                                      *)
C6_MaybeSettleEffect ==
    /\ result.op = "maybe_settle" =>
         LET old == pre.paper_trades
             b0 == balances(pre.paper_state)
             due == {i \in DOMAIN old :
                       old[i].status = "open" /\ old[i].ts_open + SettleAfterSecs <= clock}
             cost == [i \in DOMAIN old |-> old[i].sum_price * old[i].size]
             profit == [i \in DOMAIN old |-> old[i].expected_profit]
         IN
         /\ DOMAIN paper_trades = DOMAIN old
         /\ \A i \in due : paper_trades[i] =
                [old[i] EXCEPT !.status = "closed", !.ts_close = clock]
         /\ \A i \in (DOMAIN old) \ due : paper_trades[i] = old[i]
         /\ result.n_closed = Cardinality(due)
         /\ paper_orders = pre.paper_orders
         /\ Bal.locked = b0.locked - SumSet(cost, due)
         /\ Bal.free = b0.free + SumSet(cost, due) + SumSet(profit, due)
         /\ Bal.pnl = b0.pnl + SumSet(profit, due)
    /\ pc \in SettlePcs =>
         \A i, j \in DOMAIN paper_trades :
            (/\ pre.paper_trades[i].status = "open"
             /\ pre.paper_trades[j].status = "open"
             /\ paper_trades[i].status = "closed"
             /\ paper_trades[j].status = "open"
             /\ pre.paper_trades[j].ts_open + SettleAfterSecs <= loc.now)
            => pre.paper_trades[i].ts_open <= pre.paper_trades[j].ts_open

-----------------------------------------------------------------------------
(* Control plane: the switch file written by botctl.py and read by         *)
(* daemon._read_botctl                                                     *)

BotctlFiles == {"missing", "paper", "paper_neg", "paused"}

BotctlContent(f) ==
    CASE f = "paper" ->
           [enabled |-> TRUE, mode |-> "paper", bankroll |-> 100000,
            max_per_trade |-> 180, min_buf_edge |-> 20000]
      [] f = "paper_neg" ->
           [enabled |-> TRUE, mode |-> "paper", bankroll |-> 100000,
            max_per_trade |-> 5000, min_buf_edge |-> 0 - 100000]
      [] f = "paper_small" ->
           [enabled |-> TRUE, mode |-> "paper", bankroll |-> 100000,
            max_per_trade |-> 45, min_buf_edge |-> 0 - 100000]
      [] f = "paused" ->
           [enabled |-> FALSE, mode |-> "paper", bankroll |-> 300,
            max_per_trade |-> 5000, min_buf_edge |-> 20000]

_read_botctl(f) == IF f \in {"missing", "partial"} THEN <<>> ELSE BotctlContent(f)

dict_get(d, key, default) == IF key \in DOMAIN d THEN d[key] ELSE default

bot_enabled(cache) == dict_get(cache, "enabled", FALSE)
bot_mode(cache) == dict_get(cache, "mode", "off")
min_buf_edge(cache) == dict_get(cache, "min_buf_edge", AlertThreshold)
max_per_trade(cache) == dict_get(cache, "max_per_trade", DefaultMaxPerTrade)
bankroll(cache) == dict_get(cache, "bankroll", DefaultBankroll)

PaperOn_mode_only(cache) == bot_mode(cache) = "paper"

PaperOn(cache) == bot_enabled(cache) /\ bot_mode(cache) = "paper"

-----------------------------------------------------------------------------
(* Market data of the one mapped pair (Kalshi K1 <-> Polymarket P1) as the *)
(* two providers return it in one iteration.  NULL is an absent price.     *)

Book(yes, no, yes_sz, no_sz) ==
    [present |-> TRUE, yes |-> yes, no |-> no, yes_sz |-> yes_sz, no_sz |-> no_sz]
NoBook == [present |-> FALSE]

Views ==
    { [k |-> Book(40, 60, 3, 3), p |-> Book(45, 50, 3, 3)],     \* dir 1 costs 90, dir 2 costs 105
      [k |-> Book(NULL, 60, 0, 2), p |-> Book(45, 50, 0, 2)],   \* dir 1 unpriced, dir 2 without size
      [k |-> NoBook, p |-> Book(50, 50, 2, 2)] }                \* no Kalshi snapshot

YesBook(v, d) == IF d = 1 THEN v.k ELSE v.p
NoBookOf(v, d) == IF d = 1 THEN v.p ELSE v.k
VenueOf(b) == IF b = "k" THEN "Kalshi" ELSE "Polymarket"
MarketOf(b) == IF b = "k" THEN "K1" ELSE "P1"
YesSide(d) == IF d = 1 THEN "k" ELSE "p"
NoSide(d) == IF d = 1 THEN "p" ELSE "k"

Paired(v) == v.k.present /\ v.p.present
Priced(v, d) == YesBook(v, d).yes # NULL /\ NoBookOf(v, d).no # NULL
DirCost(v, d) == YesBook(v, d).yes + NoBookOf(v, d).no
DirExe(v, d) == Min(YesBook(v, d).yes_sz, NoBookOf(v, d).no_sz)

(* config.min_executable_size of the ScannerConfig that main loaded; the    *)
(* lab default where the environment sets nothing                          *)
min_executable_size ==
    IF config = NoConfig THEN MinExecutableSize ELSE config.min_executable_size

Qualifies(v, d, cache) ==
    /\ Paired(v)
    /\ Priced(v, d)
    /\ BufEdge(DirCost(v, d)) >= min_buf_edge(cache)
    /\ DirExe(v, d) >= min_executable_size

SignalRow(v, d, t) ==
    [ts |-> t, kind |-> "cross_venue",
     a_venue |-> VenueOf(YesSide(d)), a_market_id |-> MarketOf(YesSide(d)),
     b_venue |-> VenueOf(NoSide(d)), b_market_id |-> MarketOf(NoSide(d)),
     sum_price |-> DirCost(v, d), raw_edge |-> 100 - DirCost(v, d),
     buf_edge |-> BufEdge(DirCost(v, d)), exec_size |-> DirExe(v, d)]

SnapshotRows(v, t) ==
    {[ts |-> t, venue |-> VenueOf(b), market_id |-> MarketOf(b),
      yes_ask |-> v[b].yes, no_ask |-> v[b].no,
      yes_sz |-> v[b].yes_sz, no_sz |-> v[b].no_sz] : b \in {x \in {"k", "p"} : v[x].present}}

ExecKey(d) ==
    IF d = 1 THEN <<"KYES_PNO", "K1", "P1">> ELSE <<"PYES_KNO", "P1", "K1">>

(* size = max(min_executable_size, min(exe, max_per_trade / cost)), with   *)
(* the quotient taken only where it is the result (there it is exact for   *)
(* the inputs of this model, see CapIsExact).                              *)
PlanSize(exe, cost, mpt) ==
    IF ~(cost > 0) THEN Max(min_executable_size, Min(exe, 0))
    ELSE IF exe * cost <= mpt THEN Max(min_executable_size, exe)
    ELSE IF mpt <= min_executable_size * cost THEN min_executable_size
    ELSE mpt \div cost

BuildPlan(v, d, cache) ==
    TradePlan("cross_venue", BufEdge(DirCost(v, d)), DirCost(v, d),
              PlanSize(DirExe(v, d), DirCost(v, d), max_per_trade(cache)),
              <<Leg(VenueOf(YesSide(d)), MarketOf(YesSide(d)), "YES", "BUY",
                    YesBook(v, d).yes, YesBook(v, d).yes_sz),
                Leg(VenueOf(NoSide(d)), MarketOf(NoSide(d)), "NO", "BUY",
                    NoBookOf(v, d).no, NoBookOf(v, d).no_sz)>>,
              IF d = 1 THEN "paper: buy YES@kalshi + NO@poly"
                       ELSE "paper: buy YES@poly + NO@kalshi")

CooledDown(last, d, at) == at - dict_get(last, ExecKey(d), 0) >= TradeCooldownSecs

-----------------------------------------------------------------------------
(* daemon.main *)

(* Storage: tables snapshots and signals *)

SnapshotKey(r) == <<r.ts, r.venue, r.market_id>>

insert_or_replace(tbl, r) == {x \in tbl : SnapshotKey(x) # SnapshotKey(r)} \cup {r}

insert_or_ignore(tbl, r) ==
    IF \E x \in tbl : SnapshotKey(x) = SnapshotKey(r) THEN tbl ELSE tbl \cup {r}

RECURSIVE insert_snapshots(_, _)
insert_snapshots(tbl, rs) ==
    IF rs = <<>> THEN [tbl |-> tbl, n |-> 0]
    ELSE LET t1 == insert_or_ignore(tbl, Head(rs))
             rest == insert_snapshots(t1, Tail(rs))
         IN  [tbl |-> rest.tbl,
              n |-> rest.n + (IF t1 = tbl THEN 0 ELSE 1)]

prune_snapshots(tbl, at, keep) ==
    IF keep <= 0 THEN tbl ELSE {r \in tbl : ~(r.ts < at - keep)}

(* Cursor file and batch selection *)

load_cursor(file) == IF file.state = "json" THEN file.cursor ELSE 0

Slice(items, lo, hi) == SubSeq(items, lo + 1, Min(hi, Len(items)))

iter_batches(items, start, size) ==
    LET n == Len(items) IN
    IF n = 0 THEN [batch |-> <<>>, new_cursor |-> 0]
    ELSE LET st == start % n
             end == st + size
         IN  [batch |-> IF end <= n THEN Slice(items, st, end)
                        ELSE Slice(items, st, n) \o Slice(items, 0, end % n),
              new_cursor |-> (st + size) % n]

Range(seq) == {seq[i] : i \in DOMAIN seq}

(* The process exits: the locals of main are gone, the files stay *)
KalshiLocalsGone ==
    /\ kalshi_universe' = <<>>
    /\ last_refresh' = 0
    /\ cursor' = 0
    /\ batch' = <<>>
    /\ visited' = {}
    /\ iters' = 0
    /\ refresh' = "none"
    /\ sleep' = 0
    /\ snapshots' = <<>>
    /\ last_prune_ts' = 0
    /\ inserted' = 0

Refuses_never(dr) == FALSE

Refuses(dr) == ~dr

loopLocals == <<botctl_cache, last_botctl_ts, last_settle_ts, last_trade_by_key, now,
                snaps, ts, dir, attempt>>

Main ==
    /\ pc = "start"
    /\ IF Refuses(dry_run)
       THEN /\ exit_code' = 1
            /\ started' = {}
            /\ UNCHANGED <<pc, runs>>
       ELSE /\ runs < MaxRuns
            /\ runs' = runs + 1
            /\ started' = {"store", "run"}
            /\ exit_code' = NULL
            /\ pc' = "ctor"
    /\ UNCHANGED <<clock, storeVars, ret, plan, loc, result, pre, initial_bankroll,
                   dry_run, scanVars, kalshiVars, botctl_file, ctlVars, rows, signals, loopLocals>>

Construct ==
    /\ pc = "ctor"
    /\ PaperExecutorInit("boot")
    /\ UNCHANGED daemonVars

Boot ==
    /\ pc = "boot"
    /\ started' = started \cup {"cursor"}
    /\ last_refresh' = 0
    /\ kalshi_universe' = <<>>
    /\ cursor' = load_cursor(cursor_file)
    /\ batch' = <<>>
    /\ visited' = {}
    /\ iters' = 0
    /\ refresh' = "none"
    /\ sleep' = 0
    /\ pc' = "loop"
    /\ UNCHANGED <<clock, storeVars, ret, plan, loc, result, pre, initial_bankroll,
                   dry_run, scanVars, batch_size, cursor_file, saveGhost, tableVars, failed_batch,
                   runs, exit_code, botctl_file, ctlVars, rows, signals, loopLocals>>

IterBegin ==
    /\ pc = "loop"
    /\ now' = clock
    /\ IF clock - last_botctl_ts >= BotctlPollSecs
       THEN /\ botctl_cache' = _read_botctl(botctl_file)
            /\ last_botctl_ts' = clock
       ELSE UNCHANGED <<botctl_cache, last_botctl_ts>>
    /\ pc' = "bankroll"
    /\ UNCHANGED <<clock, storeVars, ret, plan, loc, result, pre, initial_bankroll,
                   dry_run, scanVars, kalshiVars, runs, exit_code, started, botctl_file, ctlVars, last_settle_ts,
                   last_trade_by_key, snaps, ts, rows, signals, dir, attempt>>

BankrollIsSet_until_spent(st) ==
    paper_has(st, "bankroll_set") /\ st["bankroll_set"] = TRUE /\ st["locked_balance"] = 0

BankrollIsSet(st) == paper_has(st, "bankroll_set") /\ st["bankroll_set"] = TRUE

BankrollInit ==
    /\ pc = "bankroll"
    /\ IF ~BankrollIsSet(paper_state)
       THEN /\ paper_state' = paper_set(paper_state, "free_balance", bankroll(botctl_cache))
            /\ initial_bankroll' = bankroll(botctl_cache)
            /\ pc' = "bk_locked"
       ELSE /\ pc' = "settle"
            /\ UNCHANGED <<paper_state, initial_bankroll>>
    /\ UNCHANGED <<clock, paper_trades, paper_orders, ret, plan, loc, result, pre, daemonVars>>

BankrollSetLocked ==
    /\ pc = "bk_locked"
    /\ paper_state' = paper_set(paper_state, "locked_balance", 0)
    /\ pc' = "bk_pnl"
    /\ UNCHANGED <<clock, paper_trades, paper_orders, ret, plan, loc, result, pre,
                   initial_bankroll, daemonVars>>

BankrollSetPnl ==
    /\ pc = "bk_pnl"
    /\ paper_state' = paper_set(paper_state, "realized_pnl", 0)
    /\ pc' = "bk_flag"
    /\ UNCHANGED <<clock, paper_trades, paper_orders, ret, plan, loc, result, pre,
                   initial_bankroll, daemonVars>>

BankrollSetFlag ==
    /\ pc = "bk_flag"
    /\ paper_state' = paper_set(paper_state, "bankroll_set", TRUE)
    /\ pc' = "settle"
    /\ UNCHANGED <<clock, paper_trades, paper_orders, ret, plan, loc, result, pre,
                   initial_bankroll, daemonVars>>

PruneDue == keep_secs > 0 /\ now - last_prune_ts >= PruneEverySecs

Prune ==
    /\ pc = "settle"
    /\ PruneDue
    /\ tbl_snapshots' = prune_snapshots(tbl_snapshots, clock, keep_secs)
    /\ last_prune_ts' = now
    /\ UNCHANGED <<clock, storeVars, execVars, initial_bankroll,
                   dry_run, scanVars, batch_size, kalshi_universe, last_refresh, cursor, cursor_file,
                   batch, visited, iters, refresh, failed_batch, sleep, saveGhost,
                   keep_secs, quotes_on, listed_max, snapshots, tbl_signals, inserted,
                   runs, exit_code, started, botctl_file, ctlVars, rows, signals, loopLocals>>

Settle_unless_backoff ==
    /\ pc = "settle"
    /\ ~PruneDue
    /\ IF now - last_settle_ts >= SettleEverySecs /\ attempt = 0
       THEN MaybeSettleCall("settled")
       ELSE /\ pc' = "scan"
            /\ UNCHANGED <<clock, storeVars, ret, plan, loc, result, pre, initial_bankroll>>
    /\ UNCHANGED daemonVars

Settle ==
    /\ pc = "settle"
    /\ ~PruneDue
    /\ IF now - last_settle_ts >= SettleEverySecs
       THEN MaybeSettleCall("settled")
       ELSE /\ pc' = "scan"
            /\ UNCHANGED <<clock, storeVars, ret, plan, loc, result, pre, initial_bankroll>>
    /\ UNCHANGED daemonVars

Settled ==
    /\ pc = "settled"
    /\ last_settle_ts' = now
    /\ result' = NoResult
    /\ pre' = NoPre
    /\ pc' = "scan"
    /\ UNCHANGED <<clock, storeVars, ret, plan, loc, initial_bankroll,
                   dry_run, scanVars, kalshiVars, runs, exit_code, started, botctl_file, ctlVars, botctl_cache,
                   last_botctl_ts, last_trade_by_key, now, snaps, ts, rows, signals,
                   dir, attempt>>

FetchOf(views) ==
    /\ pc = "scan"
    /\ \E v \in views : snaps' = [fetched |-> TRUE, k |-> v.k, p |-> v.p]
    /\ ts' = clock
    /\ started' = started \cup {"net"}
    /\ pc' = "persist"
    /\ UNCHANGED <<clock, storeVars, ret, plan, loc, result, pre, initial_bankroll,
                   dry_run, scanVars, kalshiVars, runs, exit_code, botctl_file, ctlVars, botctl_cache,
                   last_botctl_ts, last_settle_ts, last_trade_by_key, now, rows, signals,
                   dir, attempt>>

Fetch == FetchOf(Views)

FetchFails ==
    /\ pc = "scan"
    /\ attempt < MaxAttempt
    /\ attempt' = attempt + 1
    /\ started' = started \cup {"net"}
    /\ pc' = "loop"
    /\ UNCHANGED <<clock, storeVars, ret, plan, loc, result, pre, initial_bankroll,
                   dry_run, scanVars, kalshiVars, runs, exit_code, botctl_file, ctlVars, botctl_cache,
                   last_botctl_ts, last_settle_ts, last_trade_by_key, now, snaps, ts,
                   rows, signals, dir>>

Persist ==
    /\ pc = "persist"
    /\ rows' = SnapshotRows(snaps, ts)
    /\ dir' = 1
    /\ pc' = "dir"
    /\ UNCHANGED <<clock, storeVars, ret, plan, loc, result, pre, initial_bankroll,
                   dry_run, scanVars, kalshiVars, runs, exit_code, started, botctl_file, ctlVars, botctl_cache,
                   last_botctl_ts, last_settle_ts, last_trade_by_key, now, snaps, ts,
                   signals, attempt>>

NextDirection ==
    IF dir = 1 THEN pc' = "dir" /\ dir' = 2
               ELSE pc' = "end" /\ dir' = 0

DirEval ==
    /\ pc = "dir"
    /\ IF Qualifies(snaps, dir, botctl_cache)
       THEN /\ signals' = signals \cup {SignalRow(snaps, dir, ts)}
            /\ IF PaperOn(botctl_cache) /\ CooledDown(last_trade_by_key, dir, now)
               THEN pc' = "exec" /\ dir' = dir
               ELSE NextDirection
       ELSE /\ signals' = signals
            /\ NextDirection
    /\ UNCHANGED <<clock, storeVars, ret, plan, loc, result, pre, initial_bankroll,
                   dry_run, scanVars, kalshiVars, runs, exit_code, started, botctl_file, ctlVars, botctl_cache,
                   last_botctl_ts, last_settle_ts, last_trade_by_key, now, snaps, ts,
                   rows, attempt>>

Execute ==
    /\ pc = "exec"
    /\ Len(paper_trades) < MaxTrades
    /\ TryExecuteCall(BuildPlan(snaps, dir, botctl_cache), "executed")
    /\ UNCHANGED daemonVars

Executed ==
    /\ pc = "executed"
    /\ last_trade_by_key' =
         IF result.ok
         THEN [k \in (DOMAIN last_trade_by_key) \cup {ExecKey(dir)} |->
                 IF k = ExecKey(dir) THEN now ELSE last_trade_by_key[k]]
         ELSE last_trade_by_key
    /\ plan' = NoPlan
    /\ result' = NoResult
    /\ pre' = NoPre
    /\ NextDirection
    /\ UNCHANGED <<clock, storeVars, ret, loc, initial_bankroll,
                   dry_run, scanVars, kalshiVars, runs, exit_code, started, botctl_file, ctlVars, botctl_cache,
                   last_botctl_ts, last_settle_ts, now, snaps, ts, rows, signals, attempt>>

EndIteration ==
    /\ pc = "end"
    /\ attempt' = 0
    /\ pc' = "loop"
    /\ snaps' = NoSnaps
    /\ ts' = 0
    /\ rows' = {}
    /\ signals' = {}
    /\ iters' = IF batch # <<>> THEN Min(iters + 1, MaxIters) ELSE iters
    /\ batch' = <<>>
    /\ snapshots' = <<>>
    /\ refresh' = "none"
    /\ UNCHANGED <<clock, storeVars, ret, plan, loc, result, pre, initial_bankroll,
                   dry_run, scanVars, batch_size, kalshi_universe, last_refresh, cursor,
                   cursor_file, saveGhost, keep_secs, quotes_on, listed_max,
                   tbl_snapshots, tbl_signals, last_prune_ts, inserted, visited, failed_batch, sleep, runs, exit_code, started, botctl_file, ctlVars, botctl_cache,
                   last_botctl_ts, last_settle_ts, last_trade_by_key, now, dir>>

(* KeyboardInterrupt: the loop breaks and main returns 0 *)
Interrupt ==
    /\ pc \notin {"start", "backoff", "backoff_sleep"}
    /\ pc' = "start"
    /\ exit_code' = 0
    /\ VolatileReset
    /\ botctl_cache' = <<>>
    /\ last_botctl_ts' = 0
    /\ last_settle_ts' = 0
    /\ last_trade_by_key' = <<>>
    /\ now' = 0
    /\ snaps' = NoSnaps
    /\ ts' = 0
    /\ dir' = 0
    /\ attempt' = 0
    /\ rows' = {}
    /\ signals' = {}
    /\ KalshiLocalsGone
    /\ failed_batch' = IF pc = "k_fetch" THEN batch ELSE failed_batch
    /\ UNCHANGED <<clock, storeVars, initial_bankroll, dry_run, scanVars, batch_size, cursor_file,
                   saveGhost, keep_secs, quotes_on, listed_max, tbl_snapshots, tbl_signals,
                   runs, started, botctl_file, ctlVars>>

(* Environment: time passes while the process sleeps, waits for a venue or *)
(* is down; the operator rewrites the switch file.                         *)
(* The switch file is read only at the top of an iteration, so a write at  *)
(* any other moment is the same as a write just before the next iteration. *)
Tick ==
    /\ pc \in {"start", "loop", "scan"}
    /\ clock < Epoch + MaxTime
    /\ clock' = clock + 1
    /\ UNCHANGED <<storeVars, execVars, initial_bankroll, daemonVars>>

CtlWrite ==
    /\ pc \in {"start", "loop"}
    /\ \E f \in BotctlFiles : f # botctl_file /\ botctl_file' = f
    /\ UNCHANGED <<clock, storeVars, execVars, initial_bankroll,
                   dry_run, scanVars, kalshiVars, ctlVars, runs, exit_code, started, botctl_cache,
                   last_botctl_ts, last_settle_ts, last_trade_by_key, now,
                   snaps, ts, rows, signals, dir, attempt>>

Next ==
    \/ Main \/ Construct \/ Boot
    \/ IterBegin
    \/ BankrollInit \/ BankrollSetLocked \/ BankrollSetPnl \/ BankrollSetFlag
    \/ Settle \/ Settled
    \/ Fetch \/ FetchFails \/ Persist
    \/ DirEval \/ Execute \/ Executed \/ EndIteration
    \/ ExecutorStep
    \/ Interrupt \/ Tick \/ CtlWrite

Spec == Init /\ [][Next]_vars

(* The quotient in PlanSize is exact wherever the model takes it *)
CapIsExact ==
    pc = "exec" =>
      LET c == DirCost(snaps, dir)
          m == max_per_trade(botctl_cache)
          e == DirExe(snaps, dir)
      IN  (c > 0 /\ e * c > m /\ m > min_executable_size * c) => m % c = 0

-----------------------------------------------------------------------------
(* Claims about the daemon, checked under Spec *)

BankrollPcs == {"bankroll", "bk_locked", "bk_pnl", "bk_flag"}
IterationPcs ==
    BankrollPcs \cup SettlePcs \cup ExecPcs
      \cup {"settle", "settled", "scan", "persist", "dir", "exec", "executed", "end"}

ExecutionKey(t) == <<t.legs[1].side, t.legs[1].venue, t.legs[1].market_id, t.legs[2].market_id>>

(* C7: cooldown. Two paper trades opened for the same execution key are at *)
(* least trade_cooldown_secs apart, also across a daemon restart.          *)
C7_Cooldown ==
    \A i, j \in DOMAIN paper_trades :
        (i < j /\ ExecutionKey(paper_trades[i]) = ExecutionKey(paper_trades[j]))
        => paper_trades[j].ts_open - paper_trades[i].ts_open >= TradeCooldownSecs

(* C8: settle monotonicity. realized_pnl never decreases, whatever         *)
(* min_buf_edge the control plane holds.                                   *)
C8_SettleMonotone ==
    [][balances(paper_state').pnl >= balances(paper_state).pnl]_vars

ControlPlaneOn ==
    /\ "enabled" \in DOMAIN botctl_cache
    /\ botctl_cache["enabled"] = TRUE
    /\ "mode" \in DOMAIN botctl_cache
    /\ botctl_cache["mode"] = "paper"

ScanRecorded ==
    /\ \A b \in {"k", "p"} :
         snaps[b].present =>
           \E r \in rows : r.ts = ts /\ r.venue = (IF b = "k" THEN "Kalshi" ELSE "Polymarket")
    /\ (/\ snaps.k.present /\ snaps.p.present
        /\ snaps.k.yes # NULL /\ snaps.p.no # NULL
        /\ 1000000 - 10025 * (snaps.k.yes + snaps.p.no) >=
             (IF "min_buf_edge" \in DOMAIN botctl_cache
              THEN botctl_cache["min_buf_edge"] ELSE 20000)
        /\ snaps.k.yes_sz >= 1 /\ snaps.p.no_sz >= 1)
       => \E g \in signals :
             /\ g.ts = ts /\ g.a_venue = "Kalshi" /\ g.b_venue = "Polymarket"
             /\ g.sum_price = snaps.k.yes + snaps.p.no

C10_DryRunPinning ==
    ~dry_run =>
       /\ pc = "start"
       /\ started = {}
       /\ runs = 0
       /\ paper_state = <<>>
       /\ exit_code \in {NULL, 1}

C10_Witness ==
    /\ ~dry_run
    /\ exit_code = 1

-----------------------------------------------------------------------------
(* The daemon with --use-kalshi only: universe refresh, batch selection,   *)
(* cursor file, snapshot fetch, backoff.  The control-plane file is absent *)
(* and no mapping is scanned.                                              *)

Tickers == [i \in 1..MaxUniverse |-> i]
Listings(most) == {SubSeq(Tickers, 1, n) : n \in 0..most}

RefreshDue == now - last_refresh >= RefreshMarketsSecs \/ kalshi_universe = <<>>

(* with the universe of the iteration set, the progress window restarts *)
WindowOf(universe) ==
    /\ visited' = IF universe = kalshi_universe THEN visited ELSE {}
    /\ iters' = IF universe = kalshi_universe THEN iters ELSE 0

Refresh ==
    /\ pc = "scan"
    /\ IF RefreshDue
       THEN \E listing \in Listings(listed_max) :
              /\ kalshi_universe' = listing
              /\ last_refresh' = now
              /\ refresh' = "ok"
              /\ WindowOf(listing)
       ELSE UNCHANGED <<kalshi_universe, last_refresh, refresh, visited, iters>>
    /\ pc' = "select"
    /\ UNCHANGED <<clock, storeVars, ret, plan, loc, result, pre, initial_bankroll,
                   dry_run, scanVars, batch_size, cursor, cursor_file, saveGhost, tableVars, batch, failed_batch, sleep,
                   runs, exit_code, started, botctl_file, ctlVars, rows, signals, loopLocals>>

OnRefreshFailure_raise(universe) == "raise"

OnRefreshFailure(universe) == IF universe # <<>> THEN "continue" ELSE "raise"

RefreshFails ==
    /\ pc = "scan"
    /\ RefreshDue
    /\ attempt < MaxFailures
    /\ refresh' = "failed"
    /\ IF OnRefreshFailure(kalshi_universe) = "continue"
       THEN /\ last_refresh' = now
            /\ pc' = "select"
       ELSE /\ pc' = "backoff"
            /\ UNCHANGED last_refresh
    /\ UNCHANGED <<clock, storeVars, ret, plan, loc, result, pre, initial_bankroll,
                   dry_run, scanVars, batch_size, kalshi_universe, cursor, cursor_file, saveGhost, tableVars, batch,
                   visited, iters, failed_batch, sleep,
                   runs, exit_code, started, botctl_file, ctlVars, rows, signals, loopLocals>>

Select ==
    /\ pc = "select"
    /\ IF kalshi_universe # <<>>
       THEN LET r == iter_batches(kalshi_universe, cursor, batch_size) IN
            /\ batch' = r.batch
            /\ cursor' = r.new_cursor
            /\ visited' = visited \cup Range(r.batch)
            /\ pc' = "save_open"
       ELSE /\ pc' = "end"
            /\ UNCHANGED <<batch, cursor, visited>>
    /\ UNCHANGED <<clock, storeVars, ret, plan, loc, result, pre, initial_bankroll,
                   dry_run, scanVars, batch_size, kalshi_universe, last_refresh, cursor_file, saveGhost, tableVars,
                   iters, refresh, failed_batch, sleep,
                   runs, exit_code, started, botctl_file, ctlVars, rows, signals, loopLocals>>

(* save_cursor: open(path, "w") truncates the file, json.dump then writes it *)
SaveOpen ==
    /\ pc = "save_open"
    /\ cursor_file' = PartialFile
    /\ saved_old' = load_cursor(cursor_file)
    /\ saved_new' = cursor
    /\ UNCHANGED tableVars
    /\ pc' = "save_dump"
    /\ UNCHANGED <<clock, storeVars, ret, plan, loc, result, pre, initial_bankroll,
                   dry_run, scanVars, batch_size, kalshi_universe, last_refresh, cursor, batch,
                   visited, iters, refresh, failed_batch, sleep,
                   runs, exit_code, started, botctl_file, ctlVars, rows, signals, loopLocals>>

SaveDump ==
    /\ pc = "save_dump"
    /\ cursor_file' = CursorJson(cursor)
    /\ UNCHANGED <<saveGhost, tableVars>>
    /\ pc' = "k_fetch"
    /\ UNCHANGED <<clock, storeVars, ret, plan, loc, result, pre, initial_bankroll,
                   dry_run, scanVars, batch_size, kalshi_universe, last_refresh, cursor, batch,
                   visited, iters, refresh, failed_batch, sleep,
                   runs, exit_code, started, botctl_file, ctlVars, rows, signals, loopLocals>>

(* Top of book a venue may quote for a ticker *)
Quotes == {"none", "fair", "wide", "thin"}
QuoteBook(q) ==
    IF q = "fair" THEN Book(50, 50, 2, 2) ELSE IF q = "wide" THEN Book(40, 50, 2, 2)
    ELSE IF q = "thin" THEN Book(50, 50, 0, 2)
    ELSE NoBook

(* KalshiProvider takes no include_tickers: the constructor call of main   *)
(* raises TypeError and main falls back to KalshiProvider(), whose         *)
(* fetch_market_snapshots lists the open markets itself and returns one    *)
(* snapshot per listed ticker that has a book                              *)
Fetched(listing, quote) ==
    LET listed == SelectSeq(listing, LAMBDA t : quote[t] # "none")
    IN  [i \in DOMAIN listed |->
           [venue |-> "Kalshi", market_id |-> listed[i], book |-> QuoteBook(quote[listed[i]])]]

KFetch ==
    /\ pc = "k_fetch"
    /\ \E listing \in Listings(listed_max) :
         \E quote \in [Range(listing) -> quotes_on] :
            snapshots' = Fetched(listing, quote)
    /\ ts' = clock
    /\ failed_batch' = IF failed_batch = batch THEN <<>> ELSE failed_batch
    /\ pc' = "k_persist"
    /\ UNCHANGED <<clock, storeVars, ret, plan, loc, result, pre, initial_bankroll,
                   dry_run, scanVars, batch_size, kalshi_universe, last_refresh, cursor, cursor_file,
                   saveGhost, keep_secs, quotes_on, listed_max, tbl_snapshots, tbl_signals,
                   last_prune_ts, inserted,
                   batch, visited, iters, refresh, sleep,
                   runs, exit_code, started, botctl_file, ctlVars, botctl_cache, last_botctl_ts,
                   last_settle_ts, last_trade_by_key, now, snaps, rows, signals, dir,
                   attempt>>

KFetchFails ==
    /\ pc = "k_fetch"
    /\ attempt < MaxFailures
    /\ failed_batch' = batch
    /\ pc' = "backoff"
    /\ UNCHANGED <<clock, storeVars, ret, plan, loc, result, pre, initial_bankroll,
                   dry_run, scanVars, batch_size, kalshi_universe, last_refresh, cursor, cursor_file, saveGhost, tableVars,
                   batch, visited, iters, refresh, sleep,
                   runs, exit_code, started, botctl_file, ctlVars, rows, signals, loopLocals>>

KalshiRow(s, t) ==
    [ts |-> t, venue |-> s.venue, market_id |-> s.market_id,
     yes_ask |-> s.book.yes, no_ask |-> s.book.no,
     yes_sz |-> s.book.yes_sz, no_sz |-> s.book.no_sz]

KPersist ==
    /\ pc = "k_persist"
    /\ LET r == insert_snapshots(tbl_snapshots,
                                 [i \in DOMAIN snapshots |-> KalshiRow(snapshots[i], ts)])
       IN  /\ tbl_snapshots' = r.tbl
           /\ inserted' = r.n
    /\ pc' = "k_signals"
    /\ UNCHANGED <<clock, storeVars, ret, plan, loc, result, pre, initial_bankroll,
                   dry_run, scanVars, batch_size, kalshi_universe, last_refresh, cursor, cursor_file,
                   batch, visited, iters, refresh, failed_batch, sleep, saveGhost,
                   keep_secs, quotes_on, listed_max, snapshots, tbl_signals, last_prune_ts,
                   runs, exit_code, started, botctl_file, ctlVars, rows, signals, loopLocals>>

InternalSignal(s) ==
    /\ s.book.yes # NULL
    /\ s.book.no # NULL
    /\ InternalFloor <= BufEdge(s.book.yes + s.book.no)
    /\ BufEdge(s.book.yes + s.book.no) <= InternalCeiling

KalshiSignal(s, t) ==
    [ts |-> t, kind |-> "kalshi_internal", a_venue |-> "Kalshi",
     a_market_id |-> s.market_id, b_venue |-> "NULL", b_market_id |-> NULL,
     sum_price |-> s.book.yes + s.book.no,
     buf_edge |-> BufEdge(s.book.yes + s.book.no),
     exec_size |-> Min(s.book.yes_sz, s.book.no_sz)]

KSignals ==
    /\ pc = "k_signals"
    /\ tbl_signals' = tbl_signals \cup
          {KalshiSignal(snapshots[i], ts) :
             i \in {j \in DOMAIN snapshots : InternalSignal(snapshots[j])}}
    /\ pc' = "end"
    /\ UNCHANGED <<clock, storeVars, ret, plan, loc, result, pre, initial_bankroll,
                   dry_run, scanVars, batch_size, kalshi_universe, last_refresh, cursor, cursor_file,
                   batch, visited, iters, refresh, failed_batch, sleep, saveGhost,
                   keep_secs, quotes_on, listed_max, snapshots, tbl_snapshots, last_prune_ts, inserted,
                   runs, exit_code, started, botctl_file, ctlVars, rows, signals, loopLocals>>

RECURSIVE Pow(_, _)
Pow(b, e) == IF e = 0 THEN 1 ELSE b * Pow(b, e - 1)

Delay_uncapped(k) == BackoffBase * Pow(BackoffFactor, k)

Delay(k) == Min(BackoffCap, BackoffBase * Pow(BackoffFactor, k))

(* random.uniform(-wiggle, +wiggle): both ends and the middle *)
Jittered(delay) ==
    LET wiggle == (delay * JitterPct) \div 100
    IN  {Max(0, delay + w) : w \in {0 - wiggle, 0, wiggle}}

(* except Exception: s = backoff.next_sleep(); time.sleep(s); continue *)
NextSleep ==
    /\ pc = "backoff"
    /\ sleep' \in Jittered(Delay(attempt))
    /\ attempt' = attempt + 1
    /\ batch' = <<>>
    /\ refresh' = "none"
    /\ pc' = "backoff_sleep"
    /\ UNCHANGED <<clock, storeVars, ret, plan, loc, result, pre, initial_bankroll,
                   dry_run, scanVars, batch_size, kalshi_universe, last_refresh, cursor, cursor_file, saveGhost, tableVars,
                   visited, iters, failed_batch,
                   runs, exit_code, started, botctl_file, ctlVars, botctl_cache, last_botctl_ts,
                   last_settle_ts, last_trade_by_key, now, snaps, ts, rows, signals, dir>>

Retry ==
    /\ pc = "backoff_sleep"
    /\ sleep' = 0
    /\ pc' = "loop"
    /\ UNCHANGED <<clock, storeVars, ret, plan, loc, result, pre, initial_bankroll,
                   dry_run, scanVars, batch_size, kalshi_universe, last_refresh, cursor, cursor_file, saveGhost, tableVars,
                   batch, visited, iters, refresh, failed_batch,
                   runs, exit_code, started, botctl_file, ctlVars, rows, signals, loopLocals>>

(* KeyboardInterrupt inside the except Exception handler is not caught by *)
(* the sibling handler: it leaves main()                                   *)
InterruptInBackoff ==
    /\ pc \in {"backoff", "backoff_sleep"}
    /\ pc' = "start"
    /\ exit_code' = SigintExit
    /\ VolatileReset
    /\ botctl_cache' = <<>>
    /\ last_botctl_ts' = 0
    /\ last_settle_ts' = 0
    /\ last_trade_by_key' = <<>>
    /\ now' = 0
    /\ snaps' = NoSnaps
    /\ ts' = 0
    /\ dir' = 0
    /\ attempt' = 0
    /\ rows' = {}
    /\ signals' = {}
    /\ KalshiLocalsGone
    /\ UNCHANGED <<clock, storeVars, initial_bankroll, dry_run, scanVars, batch_size, cursor_file,
                   saveGhost, keep_secs, quotes_on, listed_max, tbl_snapshots, tbl_signals,
                   failed_batch, runs, started, botctl_file, ctlVars>>

InitScan ==
    /\ InitCore
    /\ dry_run = TRUE
    /\ batch_size \in 1..MaxBatch
    /\ kalshi_universe = <<>>
    /\ last_refresh = 0
    /\ cursor = 0
    /\ cursor_file = NoFile
    /\ batch = <<>>
    /\ visited = {}
    /\ iters = 0
    /\ refresh = "none"
    /\ failed_batch = <<>>
    /\ sleep = 0
    /\ saved_old = 0
    /\ saved_new = 0
    /\ keep_secs = 0
    /\ quotes_on = {"none"}
    /\ listed_max = MaxUniverse
    /\ snapshots = <<>>
    /\ tbl_snapshots = {}
    /\ tbl_signals = {}
    /\ last_prune_ts = 0
    /\ inserted = 0

NextScan ==
    \/ Main \/ Construct \/ CtorSetLocked \/ CtorSetPnl \/ Boot
    \/ IterBegin
    \/ BankrollInit \/ BankrollSetLocked \/ BankrollSetPnl \/ BankrollSetFlag
    \/ Settle \/ Settled
    \/ Refresh \/ RefreshFails \/ Select \/ SaveOpen \/ SaveDump
    \/ KFetch \/ KFetchFails \/ KPersist \/ KSignals
    \/ EndIteration \/ NextSleep \/ Retry
    \/ Interrupt \/ InterruptInBackoff \/ Tick

SpecScan == InitScan /\ [][NextScan]_vars

(* The same daemon on a venue that quotes order books, with snapshot       *)
(* pruning on, and no failure                                              *)
InitStore ==
    /\ InitCore
    /\ dry_run = TRUE
    /\ batch_size \in 1..MaxBatch
    /\ kalshi_universe = <<>>
    /\ last_refresh = 0
    /\ cursor = 0
    /\ cursor_file = NoFile
    /\ batch = <<>>
    /\ visited = {}
    /\ iters = 0
    /\ refresh = "none"
    /\ failed_batch = <<>>
    /\ sleep = 0
    /\ saved_old = 0
    /\ saved_new = 0
    /\ keep_secs = KeepSecs
    /\ quotes_on = {"fair", "wide"}
    /\ listed_max = 1
    /\ snapshots = <<>>
    /\ tbl_snapshots = {}
    /\ tbl_signals = {}
    /\ last_prune_ts = 0
    /\ inserted = 0

NextStore ==
    \/ Main \/ Construct \/ CtorSetLocked \/ CtorSetPnl \/ Boot
    \/ IterBegin
    \/ BankrollInit \/ BankrollSetLocked \/ BankrollSetPnl \/ BankrollSetFlag
    \/ Prune \/ Settle \/ Settled
    \/ Refresh \/ Select \/ SaveOpen \/ SaveDump
    \/ KFetch \/ KPersist \/ KSignals
    \/ EndIteration
    \/ Interrupt \/ Tick

SpecStore == InitStore /\ [][NextStore]_vars

-----------------------------------------------------------------------------
(* Claims about the Kalshi scan, checked under SpecScan *)

Ceil(n, d) == (n + d - 1) \div d

C14_RefreshFailure ==
    /\ [][(pc = "scan" /\ refresh' = "failed") =>
            IF kalshi_universe # <<>>
            THEN /\ kalshi_universe' = kalshi_universe
                 /\ attempt' = attempt
                 /\ cursor' = cursor
                 /\ cursor_file' = cursor_file
                 /\ pc' = "select"
            ELSE /\ pc' = "backoff"
                 /\ attempt' = attempt]_vars
    /\ [][(pc = "select" /\ refresh = "failed" /\ pc' # "start") =>
            /\ batch' = iter_batches(kalshi_universe, load_cursor(cursor_file),
                                     batch_size).batch
            /\ batch' # <<>>
            /\ attempt' = attempt
            /\ pc' = "save_open"]_vars
    /\ [][(pc = "backoff" /\ pc' # "start") =>
            /\ attempt' = attempt + 1
            /\ pc' = "backoff_sleep"]_vars
    /\ [][(pc = "backoff_sleep" /\ pc' \notin {"start", "backoff_sleep"}) =>
            pc' = "loop"]_vars

C14_Witness ==
    /\ pc = "end"
    /\ refresh = "failed"
    /\ batch # <<>>
    /\ attempt > 0

(* C15: backoff. The k-th consecutive failed iteration sleeps within 20%   *)
(* of min(cap, base * factor^k); the attempt counter grows by one per      *)
(* failed iteration and a completed iteration resets it to 0.              *)
C15_Backoff ==
    /\ [][(pc = "backoff" /\ pc' # "start") =>
            LET d == Min(BackoffCap, BackoffBase * Pow(BackoffFactor, attempt)) IN
            /\ pc' = "backoff_sleep"
            /\ attempt' = attempt + 1
            /\ 100 * sleep' >= (100 - JitterPct) * d
            /\ 100 * sleep' <= (100 + JitterPct) * d]_vars
    /\ [][(pc = "end" /\ pc' # "start") => (pc' = "loop" /\ attempt' = 0)]_vars
    /\ [][(pc \notin {"backoff", "end"} /\ pc' # "start") => attempt' = attempt]_vars
    /\ [][(pc' = "backoff" /\ pc # "backoff") => pc \in {"scan", "k_fetch"}]_vars

C15_Witness ==
    /\ pc = "backoff_sleep"
    /\ attempt = 3
    /\ sleep > BackoffCap

(* C16: an interrupt at any point of the loop (in an iteration, in the    *)
(* end-of-iteration sleep, in the backoff sleep) makes the daemon close    *)
(* the storage handle and exit with code 0.                                *)
C16_InterruptExitsCleanly ==
    (pc = "start" /\ exit_code # NULL /\ started # {}) =>
       /\ exit_code = 0
       /\ "closed" \in started

(* C16, the exit code alone *)
C16_ExitCodeZero ==
    (pc = "start" /\ exit_code # NULL /\ started # {}) => exit_code = 0

-----------------------------------------------------------------------------
(* Claims about the snapshot and signal tables, checked under SpecStore *)

HasSnapshot(t, venue, market_id) ==
    \E r \in tbl_snapshots : r.ts = t /\ r.venue = venue /\ r.market_id = market_id

(* C17: signal completeness. In every store state, after any scan          *)
(* iterations and prunes, each market a signal row refers to has a         *)
(* snapshot row with the signal's ts.                                      *)
C17_SignalCompleteness ==
    \A g \in tbl_signals :
       /\ g.a_market_id # NULL => HasSnapshot(g.ts, g.a_venue, g.a_market_id)
       /\ g.b_market_id # NULL => HasSnapshot(g.ts, g.b_venue, g.b_market_id)

(* C18: snapshot idempotence. A (ts, venue, market_id) key has at most one *)
(* row; inserting a stored key again keeps the stored row's values; and    *)
(* insert_snapshots returns the number of rows it added.                   *)
C18_SnapshotIdempotence ==
    /\ [](\A r1, r2 \in tbl_snapshots :
            (r1.ts = r2.ts /\ r1.venue = r2.venue /\ r1.market_id = r2.market_id)
            => r1 = r2)
    /\ [][(pc = "k_persist" /\ pc' = "k_signals") =>
            /\ tbl_snapshots \subseteq tbl_snapshots'
            /\ \A i \in DOMAIN snapshots :
                 \E r \in tbl_snapshots' :
                    /\ r.ts = ts /\ r.venue = snapshots[i].venue
                    /\ r.market_id = snapshots[i].market_id
            /\ inserted' = Cardinality(tbl_snapshots') - Cardinality(tbl_snapshots)]_vars

C18_Witness ==
    /\ pc = "k_signals"
    /\ inserted = 0
    /\ \E i \in DOMAIN snapshots :
         \E r \in tbl_snapshots :
            /\ r.ts = ts /\ r.venue = snapshots[i].venue
            /\ r.market_id = snapshots[i].market_id
            /\ r.yes_ask # snapshots[i].book.yes

-----------------------------------------------------------------------------
(* Claims about the control plane *)

(* C19: when a poll finds the switch file missing or malformed, the daemon *)
(* keeps the values it read last.                                          *)
C19_LastKnownGood ==
    [][(pc = "loop" /\ pc' = "bankroll" /\ botctl_file = "missing"
          /\ DOMAIN botctl_cache # {})
        => /\ DOMAIN botctl_cache' = DOMAIN botctl_cache
           /\ \A k \in DOMAIN botctl_cache : botctl_cache'[k] = botctl_cache[k]]_vars

-----------------------------------------------------------------------------
(* botctl._write step by step, beside a running daemon: the writer opens   *)
(* the file named tmp, dumps the state into it and renames it over path.   *)
(* Files are "missing", "partial" (opened for writing, JSON incomplete) or *)
(* hold one of the complete states of BotctlFiles.                         *)

tmp_in_place == "path"

tmp == "tmp"

FileAt(name) == IF name = "tmp" THEN botctl_tmp ELSE botctl_file

WriteTo(name, content) ==
    IF name = "tmp"
    THEN botctl_tmp' = content /\ UNCHANGED botctl_file
    ELSE botctl_file' = content /\ UNCHANGED botctl_tmp

WriteUnchanged ==
    UNCHANGED <<clock, storeVars, execVars, initial_bankroll,
                dry_run, scanVars, kalshiVars, runs, exit_code, started, botctl_cache,
                last_botctl_ts, last_settle_ts, last_trade_by_key, now,
                snaps, ts, rows, signals, dir, attempt>>

(* botctl main: on / off / set build the state and call _write; open(tmp, "w") *)
WriteOpen ==
    /\ data = "none"
    /\ \E st \in BotctlFiles \ {"missing"} : st # botctl_file /\ data' = st
    /\ WriteTo(tmp, "partial")
    /\ WriteUnchanged

(* json.dump(data, f) and the close of the with block *)
WriteDump ==
    /\ data # "none"
    /\ FileAt(tmp) = "partial"
    /\ WriteTo(tmp, data)
    /\ UNCHANGED data
    /\ WriteUnchanged

(* os.replace(tmp, path) *)
WriteReplace ==
    /\ data # "none"
    /\ FileAt(tmp) = data
    /\ botctl_file' = FileAt(tmp)
    /\ botctl_tmp' = IF tmp = "tmp" THEN "missing" ELSE botctl_tmp
    /\ data' = "none"
    /\ WriteUnchanged

(* The daemon over a venue that lists no market, the control file written  *)
(* by botctl while it runs                                                 *)
InitCtl ==
    /\ InitCore
    /\ dry_run = TRUE
    /\ batch_size = 1
    /\ kalshi_universe = <<>>
    /\ last_refresh = 0
    /\ cursor = 0
    /\ cursor_file = NoFile
    /\ batch = <<>>
    /\ visited = {}
    /\ iters = 0
    /\ refresh = "none"
    /\ failed_batch = <<>>
    /\ sleep = 0
    /\ saved_old = 0
    /\ saved_new = 0
    /\ keep_secs = 0
    /\ quotes_on = {"none"}
    /\ listed_max = 0
    /\ snapshots = <<>>
    /\ tbl_snapshots = {}
    /\ tbl_signals = {}
    /\ last_prune_ts = 0
    /\ inserted = 0

NextCtl ==
    \/ Main \/ Construct \/ CtorSetLocked \/ CtorSetPnl \/ Boot
    \/ IterBegin
    \/ BankrollInit \/ BankrollSetLocked \/ BankrollSetPnl \/ BankrollSetFlag
    \/ Settle \/ Settled
    \/ Refresh \/ Select \/ EndIteration
    \/ Interrupt \/ Tick
    \/ WriteOpen \/ WriteDump \/ WriteReplace

SpecCtl == InitCtl /\ [][NextCtl]_vars

(* C20: the file the daemon polls is never a half-written one: it changes *)
(* only by the rename, from the complete previous state to the complete   *)
(* state that botctl wrote, and every poll of the daemon reads one of the *)
(* two                                                                    *)
C20_AtomicCtlWrite ==
    /\ [](botctl_file \in BotctlFiles)
    /\ [][botctl_file' # botctl_file => botctl_file' = data]_vars
    /\ [][(pc = "loop" /\ pc' = "bankroll" /\ last_botctl_ts' # last_botctl_ts)
            => botctl_cache' = _read_botctl(botctl_file)]_vars

(* a poll taken while botctl is inside _write read a complete state *)
C20_Witness ==
    /\ pc = "bankroll"
    /\ last_botctl_ts = now
    /\ data # "none"
    /\ botctl_tmp = "partial"
    /\ botctl_file # "missing"
    /\ botctl_cache = BotctlContent(botctl_file)

-----------------------------------------------------------------------------
(* arb_scanner.config, arb_scanner.models and arb_scanner.scanner: the      *)
(* evaluator of the scanner CLI.  In this section a price is a number of   *)
(* ten-thousandths (0.45 is 4500, a price delivered as the integer 45 is   *)
(* 450000, One is 1.0), an edge a number of hundred-millionths, a size a    *)
(* number of contracts; NULL is None.                                      *)

One == 10000

ConfigAlertThreshold == 2000000
NearMissCeiling == 2000000
WeirdLow == 9000
WeirdHigh == 11000
TableLimit == 20

_mode_defaults_strict_lab(mode, weird_env) ==
    IF mode = "safe"
    THEN [mode |-> "safe", min_edge_opportunity |-> 1500000, min_executable_size |-> 10,
          near_miss_edge_floor |-> 0 - 500000, near_miss_edge_ceiling |-> NearMissCeiling,
          near_miss_include_weird_sums |-> FALSE]
    ELSE [mode |-> "lab", min_edge_opportunity |-> 0, min_executable_size |-> 20,
          near_miss_edge_floor |-> 0 - 1000000, near_miss_edge_ceiling |-> NearMissCeiling,
          near_miss_include_weird_sums |-> weird_env]

_mode_defaults(mode, weird_env) ==
    IF mode = "safe"
    THEN [mode |-> "safe", min_edge_opportunity |-> 1500000, min_executable_size |-> 10,
          near_miss_edge_floor |-> 0 - 500000, near_miss_edge_ceiling |-> NearMissCeiling,
          near_miss_include_weird_sums |-> FALSE]
    ELSE [mode |-> "lab", min_edge_opportunity |-> 0, min_executable_size |-> 1,
          near_miss_edge_floor |-> 0 - 1000000, near_miss_edge_ceiling |-> NearMissCeiling,
          near_miss_include_weird_sums |-> weird_env]

load_config(mode, alert_only, weird_env) ==
    LET md == _mode_defaults(mode, weird_env) IN
    [dry_run |-> TRUE, mode |-> md.mode, alert_only |-> alert_only,
     alert_threshold |-> ConfigAlertThreshold,
     min_edge_opportunity |-> md.min_edge_opportunity,
     min_executable_size |-> md.min_executable_size,
     near_miss_edge_floor |-> md.near_miss_edge_floor,
     near_miss_edge_ceiling |-> md.near_miss_edge_ceiling,
     near_miss_include_weird_sums |-> md.near_miss_include_weird_sums,
     fee_buffer_bps |-> FeeBufferBps]

MarketSnapshot(venue, market_id, question, outcomes, yes, no, yes_sz, no_sz) ==
    [venue |-> venue, market_id |-> market_id, question |-> question,
     outcomes |-> outcomes,
     best_yes_price |-> yes, best_no_price |-> no,
     best_yes_size |-> yes_sz, best_no_size |-> no_sz]

is_binary(s) == s.outcomes = {"yes", "no"}

_normalize_price_to_prob(price) ==
    IF price = NULL THEN NULL
    ELSE IF price > One THEN price \div 100
    ELSE price

_fee_buffer(cost, cfg) == cost * cfg.fee_buffer_bps

Edge(cost, cfg) == One * One - One * cost - _fee_buffer(cost, cfg)

SizeOf(sz) == IF sz = NULL THEN 0 ELSE sz

_min_edge_for_opportunities(cfg) ==
    IF cfg.alert_only THEN cfg.alert_threshold ELSE cfg.min_edge_opportunity

(* models.iter_pairs: each snapshot of A with the last snapshot of B that  *)
(* asks the same question                                                  *)
iter_pairs(sa, sb) ==
    LET match(q) == {j \in DOMAIN sb : sb[j].question = q}
        last(q) == CHOOSE j \in match(q) : \A k \in match(q) : k <= j
    IN  [i \in {i \in DOMAIN sa : match(sa[i].question) # {}}
           |-> <<sa[i], sb[last(sa[i].question)]>>]

(* the pairs named by the mappings, through _index_by_market_id *)
MappingPairs(ks, ps, mappings) ==
    LET kmatch(id) == {j \in DOMAIN ks : ks[j].market_id = id}
        pmatch(id) == {j \in DOMAIN ps : ps[j].market_id = id}
        klast(id) == CHOOSE j \in kmatch(id) : \A k \in kmatch(id) : k <= j
        plast(id) == CHOOSE j \in pmatch(id) : \A k \in pmatch(id) : k <= j
    IN  [i \in {i \in DOMAIN mappings :
                  /\ kmatch(mappings[i].kalshi_ticker) # {}
                  /\ pmatch(mappings[i].polymarket_slug) # {}}
           |-> <<ks[klast(mappings[i].kalshi_ticker)],
                 ps[plast(mappings[i].polymarket_slug)]>>]

(* the pairs the CLI hands to the evaluator, scanner.py main 282-298 *)
PairsOf(sa, sb, mappings) ==
    LET prs == IF mappings # <<>> THEN MappingPairs(sa, sb, mappings)
               ELSE iter_pairs(sa, sb)
    IN  {prs[i] : i \in {i \in DOMAIN prs : is_binary(prs[i][1]) /\ is_binary(prs[i][2])}}

YesLeg(pr, d) == IF d = 1 THEN pr[1] ELSE pr[2]
NoLeg(pr, d) == IF d = 1 THEN pr[2] ELSE pr[1]
YesProb(pr, d) == _normalize_price_to_prob(YesLeg(pr, d).best_yes_price)
NoProb(pr, d) == _normalize_price_to_prob(NoLeg(pr, d).best_no_price)
PairPriced(pr, d) == YesProb(pr, d) # NULL /\ NoProb(pr, d) # NULL
PairCost(pr, d) == YesProb(pr, d) + NoProb(pr, d)
PairExe(pr, d) ==
    Min(SizeOf(YesLeg(pr, d).best_yes_size), SizeOf(NoLeg(pr, d).best_no_size))

Evaluated(sa, sb, mappings) ==
    {<<pr, d>> \in PairsOf(sa, sb, mappings) \X {1, 2} : PairPriced(pr, d)}

(* models.Opportunity is a dataclass of OpportunityFields; the evaluator   *)
(* constructs it with the keywords OpportunityKwargs                       *)
OpportunityFields ==
    {"market_pair", "best_yes_price_A", "best_no_price_B", "hedge_cost",
     "estimated_fees", "top_of_book_liquidity", "market_mismatch", "net_edge"}

OpportunityKwargs ==
    {"question", "outcomes", "buy_yes_venue", "buy_yes_price", "buy_no_venue",
     "buy_no_price", "sum_price", "executable_size", "edge"}

Opportunity(pr, d, cfg) ==
    [ord |-> d, yes_market |-> YesLeg(pr, d).market_id, no_market |-> NoLeg(pr, d).market_id,
     buy_yes_venue |-> YesLeg(pr, d).venue, buy_yes_price |-> YesProb(pr, d),
     buy_no_venue |-> NoLeg(pr, d).venue, buy_no_price |-> NoProb(pr, d),
     sum_price |-> PairCost(pr, d), executable_size |-> PairExe(pr, d),
     edge |-> Edge(PairCost(pr, d), cfg)]

(* stable sort of a set of rows by edge, largest first, ties in the order  *)
(* of evaluation (direction 1 before direction 2)                          *)
RECURSIVE SortByEdge(_)
SortByEdge(set) ==
    IF set = {} THEN <<>>
    ELSE LET best == CHOOSE r \in set :
                       \A x \in set : \/ r.edge > x.edge
                                      \/ r.edge = x.edge /\ r.ord <= x.ord
         IN  <<best>> \o SortByEdge(set \ {best})

(* compute_opportunities and compute_opportunities_from_mapping_pairs *)
compute_opportunities(sa, sb, mappings, cfg) ==
    LET min_edge == _min_edge_for_opportunities(cfg)
        accepted == {e \in Evaluated(sa, sb, mappings) :
                       /\ Edge(PairCost(e[1], e[2]), cfg) >= min_edge
                       /\ PairExe(e[1], e[2]) >= cfg.min_executable_size}
    IN  IF accepted # {} /\ OpportunityKwargs # OpportunityFields
        THEN [called |-> TRUE, raised |-> "TypeError", list |-> <<>>]
        ELSE [called |-> TRUE, raised |-> "none",
              list |-> SortByEdge({Opportunity(e[1], e[2], cfg) : e \in accepted})]

_keep(edge, exe, cfg) ==
    edge >= cfg.near_miss_edge_floor /\ exe >= cfg.min_executable_size

NearRow(ord, market_id, yes, no, exe, flag, cfg) ==
    [ord |-> ord, market_id |-> market_id, yes_ask |-> yes, no_ask |-> no,
     sum_price |-> yes + no, edge |-> Edge(yes + no, cfg),
     executable_size |-> exe, flag |-> flag]

normal_like_always(cost) == TRUE

normal_like(cost) == WeirdLow <= cost /\ cost <= WeirdHigh

(* intra-venue rows: one candidate per binary, fully priced snapshot of A *)
IntraExe(s) == Min(SizeOf(s.best_yes_size), SizeOf(s.best_no_size))

IntraCost(s) ==
    _normalize_price_to_prob(s.best_yes_price) + _normalize_price_to_prob(s.best_no_price)

IntraPriced(s) ==
    /\ _normalize_price_to_prob(s.best_yes_price) # NULL
    /\ _normalize_price_to_prob(s.best_no_price) # NULL

IntraRows(sa, cfg) ==
    {NearRow(0, sa[i].market_id,
             _normalize_price_to_prob(sa[i].best_yes_price),
             _normalize_price_to_prob(sa[i].best_no_price),
             IntraExe(sa[i]),
             IF normal_like(IntraCost(sa[i])) THEN "OK" ELSE "WEIRD_SUM", cfg)
       : i \in {i \in DOMAIN sa :
                  /\ is_binary(sa[i])
                  /\ IntraPriced(sa[i])
                  /\ (normal_like(IntraCost(sa[i])) \/ cfg.near_miss_include_weird_sums)
                  /\ _keep(Edge(IntraCost(sa[i]), cfg), IntraExe(sa[i]), cfg)}}

CrossRows(sa, sb, mappings, cfg) ==
    {NearRow(e[2], <<YesLeg(e[1], e[2]).market_id, NoLeg(e[1], e[2]).market_id>>,
             YesProb(e[1], e[2]), NoProb(e[1], e[2]), PairExe(e[1], e[2]), "OK", cfg)
       : e \in {e \in Evaluated(sa, sb, mappings) :
                  _keep(Edge(PairCost(e[1], e[2]), cfg), PairExe(e[1], e[2]), cfg)}}

(* format_near_miss_pairs_table and its mapping twin: the rows of the      *)
(* table, sorted by edge and cut at limit.  A line prints the fields of    *)
(* its row with six decimals (two for the size), which the units of the    *)
(* model hold exactly.                                                     *)
format_near_miss_pairs_table(sa, sb, mappings, cfg) ==
    LET found == IF sb = <<>> THEN IntraRows(sa, cfg)
                 ELSE CrossRows(sa, sb, mappings, cfg)
        sorted == SortByEdge(found)
    IN  [called |-> TRUE, rows |-> SubSeq(sorted, 1, Min(TableLimit, Len(sorted)))]

(* Inputs of the evaluator *)
ScanModes == {"lab", "safe"}

Configs ==
    {load_config(m, ao, w) : <<m, ao, w>> \in ScanModes \X BOOLEAN \X BOOLEAN}

SnapsA ==
    {MarketSnapshot("Kalshi", "K1", "q1", {"yes", "no"}, y, n, ysz, nsz)
       : <<y, n, ysz, nsz>> \in {NULL, 3800, 4000, 4800, 400000} \X {NULL, 5000, 6100, 6500}
                                 \X {NULL, 0, 10} \X {5, 10}}
    \cup {MarketSnapshot("Kalshi", "K1", "q1", {"up", "down"}, 4000, 5000, 10, 10),
          MarketSnapshot("Kalshi", "K2", "q2", {"yes", "no"}, 4000, 5000, 10, 10)}

SnapsB ==
    {MarketSnapshot("Polymarket", "P1", "q1", {"yes", "no"}, y, n, 10, nsz)
       : <<y, n, nsz>> \in {NULL, 4500} \X {NULL, 5000, 5200, 5700, 6100} \X {0, 1, 10}}

Mappings == {<<>>, <<[kalshi_ticker |-> "K1", polymarket_slug |-> "P1"]>>}

ScanUnchanged ==
    UNCHANGED <<clock, storeVars, execVars, initial_bankroll, dry_run, kalshiVars,
                runs, exit_code, started, botctl_file, ctlVars, botctl_cache,
                last_botctl_ts, last_settle_ts, last_trade_by_key, now,
                snaps, ts, rows, signals, dir, attempt,
                config, snapshots_a, snapshots_b, resolved_mappings, scan_pc,
                payload, market_raw, env, http>>

(* scanner.py main 281-286 *)
ScanOpportunities ==
    /\ scan_pc = "evaluate"
    /\ opps = NotCalled
    /\ opps' = compute_opportunities(snapshots_a, snapshots_b, resolved_mappings, config)
    /\ UNCHANGED near_miss
    /\ ScanUnchanged

(* scanner.py main 293-298 *)
ScanNearMiss ==
    /\ scan_pc = "evaluate"
    /\ near_miss = NotCalled
    /\ near_miss' = format_near_miss_pairs_table(snapshots_a, snapshots_b,
                                                 resolved_mappings, config)
    /\ UNCHANGED opps
    /\ ScanUnchanged

InitEval ==
    /\ InitDaemon
    /\ KalshiOff
    /\ dry_run = TRUE
    /\ config \in Configs
    /\ snapshots_a \in {<<s>> : s \in SnapsA}
    /\ snapshots_b \in {<<>>} \cup {<<s>> : s \in SnapsB}
    /\ resolved_mappings \in Mappings
    /\ opps = NotCalled
    /\ near_miss = NotCalled
    /\ scan_pc = "evaluate"
    /\ payload = NoPayload
    /\ market_raw = NoPayload
    /\ env = NoEnv
    /\ http = NoHttp

NextEval == ScanOpportunities \/ ScanNearMiss

SpecEval == InitEval /\ [][NextEval]_vars

(* The spec's conditions on a direction e = <<pair, d>> *)
SpecOpportunity(e, cfg) ==
    /\ Edge(PairCost(e[1], e[2]), cfg) >= cfg.min_edge_opportunity
    /\ PairExe(e[1], e[2]) >= cfg.min_executable_size

Reported(e) ==
    /\ opps.raised = "none"
    /\ \E i \in DOMAIN opps.list :
         /\ opps.list[i].ord = e[2]
         /\ opps.list[i].sum_price = PairCost(e[1], e[2])

(* C21: once compute_opportunities has run, a direction whose two prices   *)
(* are present is among the reported opportunities exactly when its        *)
(* buffered edge is at least min_edge_opportunity and its executable size  *)
(* at least min_executable_size                                            *)
C21_OpportunityIff ==
    opps.called =>
      \A e \in Evaluated(snapshots_a, snapshots_b, resolved_mappings) :
        Reported(e) <=> SpecOpportunity(e, config)

SpecNearMiss(edge, exe, cfg) ==
    /\ cfg.near_miss_edge_floor <= edge
    /\ edge < cfg.min_edge_opportunity
    /\ exe >= cfg.min_executable_size

InTable(e) ==
    \E i \in DOMAIN near_miss.rows :
      /\ near_miss.rows[i].ord = e[2]
      /\ near_miss.rows[i].sum_price = PairCost(e[1], e[2])

(* C22: once the near-miss table of a cross-venue run is built, a priced   *)
(* direction has a row in it exactly when near_miss_edge_floor <= buf_edge *)
(* < min_edge_opportunity and exec_size >= min_executable_size, so a       *)
(* direction that is an opportunity has no near-miss row                   *)
C22_NearMissIff ==
    (near_miss.called /\ snapshots_b # <<>>) =>
      \A e \in Evaluated(snapshots_a, snapshots_b, resolved_mappings) :
        /\ InTable(e) <=> SpecNearMiss(Edge(PairCost(e[1], e[2]), config),
                                       PairExe(e[1], e[2]), config)
        /\ ~(InTable(e) /\ SpecOpportunity(e, config))

(* The snapshots of an intra-venue run whose cost is a weird sum *)
IsWeird(s) ==
    /\ is_binary(s)
    /\ IntraPriced(s)
    /\ (IntraCost(s) < WeirdLow \/ IntraCost(s) > WeirdHigh)

RowsOf(s) ==
    {i \in DOMAIN near_miss.rows :
       /\ near_miss.rows[i].market_id = s.market_id
       /\ near_miss.rows[i].sum_price = IntraCost(s)}

-----------------------------------------------------------------------------
(* The internal scan over a venue that lists up to two markets, one ticker *)
(* per batch, whose books have no size on the yes side                     *)
InitFetch ==
    /\ InitCore
    /\ dry_run = TRUE
    /\ batch_size = 1
    /\ kalshi_universe = <<>>
    /\ last_refresh = 0
    /\ cursor = 0
    /\ cursor_file = NoFile
    /\ batch = <<>>
    /\ visited = {}
    /\ iters = 0
    /\ refresh = "none"
    /\ failed_batch = <<>>
    /\ sleep = 0
    /\ saved_old = 0
    /\ saved_new = 0
    /\ keep_secs = 0
    /\ quotes_on = {"thin"}
    /\ listed_max = 2
    /\ snapshots = <<>>
    /\ tbl_snapshots = {}
    /\ tbl_signals = {}
    /\ last_prune_ts = 0
    /\ inserted = 0

NextFetch ==
    \/ Main \/ Construct \/ CtorSetLocked \/ CtorSetPnl \/ Boot
    \/ IterBegin
    \/ BankrollInit \/ BankrollSetLocked \/ BankrollSetPnl \/ BankrollSetFlag
    \/ Settle \/ Settled
    \/ Refresh \/ Select \/ SaveOpen \/ SaveDump
    \/ KFetch \/ KPersist \/ KSignals
    \/ EndIteration \/ Tick

SpecFetch == InitFetch /\ [][NextFetch]_vars

(* a snapshot the evaluator must skip: a price absent or a size <= 0 *)
InputError(s) ==
    \/ s.book.yes = NULL
    \/ s.book.no = NULL
    \/ s.book.yes_sz <= 0
    \/ s.book.no_sz <= 0

(* C24: at the end of an internal-scan iteration no signal of that         *)
(* iteration belongs to a snapshot with an absent price or with a size     *)
(* that is not positive                                                    *)
C24_InputErrors ==
    pc = "end" =>
      \A i \in DOMAIN snapshots :
        InputError(snapshots[i]) =>
          ~\E sig \in tbl_signals :
              /\ sig.kind = "kalshi_internal"
              /\ sig.ts = ts
              /\ sig.a_market_id = snapshots[i].market_id

-----------------------------------------------------------------------------
(* The providers: arb_scanner.kalshi_public, arb_scanner.sources.kalshi    *)
(* and arb_scanner.sources.polymarket, one ticker and one slug.  A Kalshi  *)
(* orderbook is [yes, no], each side a sequence of levels <<cents, qty>>;  *)
(* a Gamma market is [outcomePrices, bestAsk, lastTradePrice] with prices  *)
(* in ten-thousandths.                                                     *)

MinLiq == 1
RequireTwoSided == TRUE

(* _best_bid_from_levels: the level of the highest price, the first one   *)
(* among equals                                                            *)
_best_bid_from_levels(levels) ==
    IF levels = <<>> THEN <<NULL, NULL>>
    ELSE LET i == CHOOSE i \in DOMAIN levels :
                    /\ \A j \in DOMAIN levels : levels[j][1] <= levels[i][1]
                    /\ \A j \in 1..(i - 1) : levels[j][1] < levels[i][1]
         IN  levels[i]

_cents_to_dollars(value) == IF value = NULL THEN NULL ELSE value * (One \div 100)

fetch_top_of_book(ob) ==
    LET yb == _best_bid_from_levels(ob.yes)
        nb == _best_bid_from_levels(ob.no)
    IN  [yes_ask |-> _cents_to_dollars(IF nb[1] # NULL THEN 100 - nb[1] ELSE NULL),
         no_ask |-> _cents_to_dollars(IF yb[1] # NULL THEN 100 - yb[1] ELSE NULL),
         yes_ask_qty |-> nb[2],
         no_ask_qty |-> yb[2]]

(* KalshiProvider.fetch_market_snapshots for the ticker: the snapshot, or  *)
(* nothing when the book is filtered out                                   *)
KalshiSnapshotsEnv(ticker, ob, require_two_sided, min_liq) ==
    LET top == fetch_top_of_book(ob)
        has_yes_ask == top.yes_ask # NULL
        has_no_ask == top.no_ask # NULL
        yes_size == SizeOf(top.yes_ask_qty)
        no_size == SizeOf(top.no_ask_qty)
    IN  IF ~has_yes_ask /\ ~has_no_ask THEN <<>>
        ELSE IF require_two_sided /\ ~(has_yes_ask /\ has_no_ask) THEN <<>>
        ELSE IF has_yes_ask /\ has_no_ask /\ Min(yes_size, no_size) < min_liq THEN <<>>
        ELSE <<MarketSnapshot("Kalshi", ticker, ticker, {"yes", "no"},
                              IF has_yes_ask THEN top.yes_ask \div 100 ELSE 0,
                              IF has_no_ask THEN top.no_ask \div 100 ELSE 0,
                              yes_size, no_size)>>

(* the provider under the default environment *)
KalshiSnapshots(ticker, ob) == KalshiSnapshotsEnv(ticker, ob, RequireTwoSided, MinLiq)

InUnit(p) == 0 <= p /\ p <= One

(* PolymarketProvider._extract_yes_no_prices, outcomes ["Yes", "No"] *)
_extract_yes_no_prices(market) ==
    IF market.outcomePrices # <<>>
    THEN [found |-> TRUE, yes |-> market.outcomePrices[1], no |-> market.outcomePrices[2]]
    ELSE IF market.bestAsk # NULL /\ InUnit(market.bestAsk) /\ InUnit(One - market.bestAsk)
    THEN [found |-> TRUE, yes |-> market.bestAsk, no |-> One - market.bestAsk]
    ELSE IF market.lastTradePrice # NULL /\ InUnit(market.lastTradePrice)
            /\ InUnit(One - market.lastTradePrice)
    THEN [found |-> TRUE, yes |-> market.lastTradePrice, no |-> One - market.lastTradePrice]
    ELSE [found |-> FALSE]

PolymarketSnapshots(slug, market) ==
    IF market = NoPayload THEN <<>>
    ELSE LET prices == _extract_yes_no_prices(market) IN
         IF ~prices.found THEN <<>>
         ELSE <<MarketSnapshot("Polymarket", slug, slug, {"yes", "no"},
                               prices.yes, prices.no, 0, 0)>>

(* What the venues may answer *)
Levels == {<<>>, <<<<40, 5>>>>, <<<<40, 5>>, <<45, 0>>>>, <<<<55, 3>>, <<50, 9>>>>}

Orderbooks == {[yes |-> y, no |-> n] : <<y, n>> \in Levels \X Levels}

GammaMarkets ==
    {[outcomePrices |-> op, bestAsk |-> ba, lastTradePrice |-> lt]
       : <<op, ba, lt>> \in {<<>>, <<4500, 5500>>, <<450000, 550000>>, <<0, One>>}
                             \X {NULL, 4600, 15000} \X {NULL, 4400}}
    \cup {NoPayload}

ProvUnchanged ==
    UNCHANGED <<clock, storeVars, execVars, initial_bankroll, dry_run, kalshiVars,
                runs, exit_code, started, botctl_file, ctlVars, botctl_cache,
                last_botctl_ts, last_settle_ts, last_trade_by_key, now,
                snaps, ts, rows, signals, dir, attempt,
                config, resolved_mappings, opps, near_miss, payload, market_raw, env, http>>

(* daemon.py 366-373: the cross-venue scan's Kalshi provider *)
FetchKalshi ==
    /\ scan_pc = "fetch_a"
    /\ snapshots_a' = KalshiSnapshots("K1", payload)
    /\ scan_pc' = "fetch_b"
    /\ UNCHANGED snapshots_b
    /\ ProvUnchanged

(* daemon.py 375-377: the cross-venue scan's Polymarket provider *)
FetchPolymarket ==
    /\ scan_pc = "fetch_b"
    /\ snapshots_b' = PolymarketSnapshots("P1", market_raw)
    /\ scan_pc' = "fetched"
    /\ UNCHANGED snapshots_a
    /\ ProvUnchanged

InitProv ==
    /\ InitDaemon
    /\ KalshiOff
    /\ dry_run = TRUE
    /\ config \in Configs
    /\ snapshots_a = <<>>
    /\ snapshots_b = <<>>
    /\ resolved_mappings = <<[kalshi_ticker |-> "K1", polymarket_slug |-> "P1"]>>
    /\ opps = NotCalled
    /\ near_miss = NotCalled
    /\ scan_pc = "fetch_a"
    /\ payload \in Orderbooks
    /\ market_raw \in GammaMarkets
    /\ env = NoEnv
    /\ http = NoHttp

NextProv == FetchKalshi \/ FetchPolymarket

SpecProv == InitProv /\ [][NextProv]_vars

SnapshotPrices(ss) ==
    UNION {{ss[i].best_yes_price, ss[i].best_no_price} : i \in DOMAIN ss}

(* C25: every yes/no price of a snapshot that has left a provider is a     *)
(* probability, 0 <= p <= 1, whatever raw price the venue delivered          *)
C25_Normalized ==
    \A q \in SnapshotPrices(snapshots_a) \cup SnapshotPrices(snapshots_b) : InUnit(q)

-----------------------------------------------------------------------------
(* Claims about the stored balances, checked under SpecPaper *)

(* C26: the paper balances stay non-negative. In every state reached from  *)
(* a bankroll initialisation by try_execute and maybe_settle, the stored   *)
(* free_balance and locked_balance are at least 0 and free_balance is at   *)
(* least min_free_balance.                                                 *)
C26_BalancesNonNegative ==
    /\ Bal.free >= 0
    /\ Bal.locked >= 0
    /\ Bal.free >= MinFreeBalance

C26_Witness ==
    /\ result.op = "maybe_settle"
    /\ result.n_closed > 0
    /\ Bal.locked = 0
    /\ \E i \in DOMAIN paper_trades : paper_trades[i].status = "closed"
    /\ \E i \in DOMAIN pre.paper_trades :
          /\ pre.paper_trades[i].status = "open"
          /\ balances(pre.paper_state).locked < TradeCost(pre.paper_trades[i])

WellFormedTrade(t) ==
    /\ t.status \in {"open", "closed"}
    /\ (t.ts_close # NULL) <=> (t.status = "closed")
    /\ t.status = "closed" => t.ts_close >= t.ts_open + SettleAfterSecs

TradeStep(old, new) ==
    \/ new = old
    \/ /\ old.status = "open"
       /\ pc \in SettlePcs
       /\ new.status = "closed"
       /\ new = [old EXCEPT !.status = "closed", !.ts_close = new.ts_close]

(* C27: paper trade lifecycle. A trade is created open with ts_close null; *)
(* the only later change of a stored trade is open -> closed, made inside  *)
(* maybe_settle, and a closed trade is never changed again; ts_close is    *)
(* set exactly on closed trades and is at least ts_open + settle_after.    *)
C27_TradeLifecycle ==
    /\ [](\A i \in DOMAIN paper_trades : WellFormedTrade(paper_trades[i]))
    /\ [][/\ Len(paper_trades') >= Len(paper_trades)
          /\ \A i \in DOMAIN paper_trades : TradeStep(paper_trades[i], paper_trades'[i])
          /\ \A i \in (DOMAIN paper_trades') \ (DOMAIN paper_trades) :
                /\ paper_trades'[i].status = "open"
                /\ paper_trades'[i].ts_close = NULL]_vars

C27_Witness ==
    /\ \E i \in DOMAIN paper_trades :
          /\ paper_trades[i].status = "closed"
          /\ paper_trades[i].ts_close > paper_trades[i].ts_open + SettleAfterSecs
    /\ \E i \in DOMAIN paper_trades :
          /\ paper_trades[i].status = "open"
          /\ clock >= paper_trades[i].ts_open + SettleAfterSecs

-----------------------------------------------------------------------------
(* Claims about batch selection, checked under SpecScan *)

ModuloBatch(items, c, k) ==
    [j \in 1..k |-> items[((c + j - 1) % Len(items)) + 1]]

(* C28: batch selection. For a universe of N > 0 tickers the selected      *)
(* batch is the tickers at indices cursor, cursor+1, ...,                  *)
(* cursor+batch_size-1 taken modulo N, in that order, and the new cursor   *)
(* is (cursor + batch_size) mod N; for N = 0 the batch is empty and the    *)
(* cursor 0.                                                               *)
C28_BatchSelection ==
    [][(pc = "select" /\ pc' = "save_open") =>
          /\ batch' = ModuloBatch(kalshi_universe, cursor, batch_size)
          /\ cursor' = (cursor + batch_size) % Len(kalshi_universe)
          /\ 0 <= cursor' /\ cursor' < Len(kalshi_universe)]_vars

-----------------------------------------------------------------------------
(* Claims about the internal scan's fetch, checked under SpecFetch *)

(* C29: in an internal-scan iteration the Kalshi snapshots fetched,        *)
(* persisted and evaluated are only those of tickers of the batch that     *)
(* the cursor selected for the iteration.                                  *)
C29_BatchOnlyFetch ==
    pc \in {"k_persist", "k_signals", "end"} =>
      /\ \A i \in DOMAIN snapshots : snapshots[i].market_id \in Range(batch)
      /\ \A row \in tbl_snapshots :
            (row.ts = ts /\ row.venue = "Kalshi") => row.market_id \in Range(batch)
      /\ \A sig \in tbl_signals :
            (sig.ts = ts /\ sig.kind = "kalshi_internal") => sig.a_market_id \in Range(batch)

-----------------------------------------------------------------------------
(* The daemon loop with an operator who sets a small max_per_trade *)

CapFiles == {"paper", "paper_small"}

CtlWriteCap ==
    /\ pc \in {"start", "loop"}
    /\ \E f \in CapFiles : f # botctl_file /\ botctl_file' = f
    /\ UNCHANGED <<clock, storeVars, execVars, initial_bankroll,
                   dry_run, scanVars, kalshiVars, ctlVars, runs, exit_code, started, botctl_cache,
                   last_botctl_ts, last_settle_ts, last_trade_by_key, now,
                   snaps, ts, rows, signals, dir, attempt>>

NextCap ==
    \/ Main \/ Construct \/ Boot
    \/ IterBegin
    \/ BankrollInit \/ BankrollSetLocked \/ BankrollSetPnl \/ BankrollSetFlag
    \/ Settle \/ Settled
    \/ Fetch \/ FetchFails \/ Persist
    \/ DirEval \/ Execute \/ Executed \/ EndIteration
    \/ ExecutorStep
    \/ Interrupt \/ Tick \/ CtlWriteCap

SpecCap == Init /\ [][NextCap]_vars

(* C30: size capping. The size of every paper trade plan the daemon builds *)
(* is at least min_executable_size and at most                             *)
(* min(exec_size, max_per_trade / sum_price).                              *)
C30_SizeCapping ==
    (pc \in ExecPcs \cup {"executed"} /\ plan # NoPlan) =>
       LET exec_size == Min(plan.legs[1].size_avail, plan.legs[2].size_avail)
           mpt == max_per_trade(botctl_cache)
       IN  /\ plan.size >= MinExecutableSize
           /\ plan.size <= exec_size
           /\ plan.size * plan.sum_price <= mpt

-----------------------------------------------------------------------------
(* The internal scan fed by the Kalshi provider, under an environment that *)
(* sets KALSHI_REQUIRE_TWO_SIDED, KALSHI_MIN_LIQ and the internal window   *)
(* (prices in ten-thousandths, edges in hundred-millionths)                *)

Envs ==
    {[kind |-> "set", require_two_sided |-> r, min_liq |-> l,
      internal_floor |-> 0 - 2000000, internal_ceiling |-> c]
       : <<r, l, c>> \in BOOLEAN \X {0, 1} \X {2000000, One * One}}

(* daemon.py 314-328 *)
InternalRows(ss, t) ==
    {[ts |-> t, venue |-> ss[i].venue, market_id |-> ss[i].market_id,
      yes_ask |-> ss[i].best_yes_price, no_ask |-> ss[i].best_no_price,
      yes_sz |-> SizeOf(ss[i].best_yes_size), no_sz |-> SizeOf(ss[i].best_no_size)]
       : i \in DOMAIN ss}

(* daemon.py 331-354 *)
InternalSignals(ss, t, cfg, e) ==
    LET cost(i) == ss[i].best_yes_price + ss[i].best_no_price
        hit == {i \in DOMAIN ss :
                  /\ ss[i].best_yes_price # NULL
                  /\ ss[i].best_no_price # NULL
                  /\ e.internal_floor <= Edge(cost(i), cfg)
                  /\ Edge(cost(i), cfg) <= e.internal_ceiling}
    IN  {[ts |-> t, kind |-> "kalshi_internal", a_venue |-> "Kalshi",
          a_market_id |-> ss[i].market_id, sum_price |-> cost(i),
          buf_edge |-> Edge(cost(i), cfg),
          exec_size |-> Min(SizeOf(ss[i].best_yes_size), SizeOf(ss[i].best_no_size))]
           : i \in hit}

SidedUnchanged ==
    UNCHANGED <<clock, storeVars, execVars, initial_bankroll, dry_run, kalshiVars,
                runs, exit_code, started, botctl_file, ctlVars, botctl_cache,
                last_botctl_ts, last_settle_ts, last_trade_by_key, now,
                snaps, ts, dir, attempt,
                config, snapshots_b, resolved_mappings, opps, near_miss, payload,
                market_raw, env, http>>

SidedFetch ==
    /\ scan_pc = "fetch_a"
    /\ snapshots_a' = KalshiSnapshotsEnv("K1", payload, env.require_two_sided, env.min_liq)
    /\ scan_pc' = "persist"
    /\ UNCHANGED <<rows, signals>>
    /\ SidedUnchanged

SidedPersist ==
    /\ scan_pc = "persist"
    /\ rows' = InternalRows(snapshots_a, clock)
    /\ scan_pc' = "signals"
    /\ UNCHANGED <<snapshots_a, signals>>
    /\ SidedUnchanged

SidedSignals ==
    /\ scan_pc = "signals"
    /\ signals' = InternalSignals(snapshots_a, clock, config, env)
    /\ scan_pc' = "done"
    /\ UNCHANGED <<snapshots_a, rows>>
    /\ SidedUnchanged

InitSided ==
    /\ InitDaemon
    /\ KalshiOff
    /\ dry_run = TRUE
    /\ config \in Configs
    /\ snapshots_a = <<>>
    /\ snapshots_b = <<>>
    /\ resolved_mappings = <<>>
    /\ opps = NotCalled
    /\ near_miss = NotCalled
    /\ scan_pc = "fetch_a"
    /\ payload \in Orderbooks
    /\ market_raw = NoPayload
    /\ env \in Envs
    /\ http = NoHttp

NextSided == SidedFetch \/ SidedPersist \/ SidedSignals

SpecSided == InitSided /\ [][NextSided]_vars

OneSidedAtVenue ==
    LET top == fetch_top_of_book(payload)
    IN  (top.yes_ask = NULL) # (top.no_ask = NULL)

(* C31: a one-sided snapshot (one of yes_ask / no_ask absent at the venue) *)
(* may be emitted and recorded, but no signal is derived from it.          *)
C31_OneSidedInert ==
    OneSidedAtVenue => signals = {}

-----------------------------------------------------------------------------
(* The daemon loop under a loaded ScannerConfig: mode lab with ALERT_ONLY   *)
(* off or on, and LAB_MIN_EXEC_SIZE=0                                       *)

LabConfigs ==
    {load_config("lab", FALSE, TRUE), load_config("lab", TRUE, TRUE),
     [load_config("lab", FALSE, TRUE) EXCEPT !.min_executable_size = 0]}

LabViews ==
    { [k |-> Book(49, 60, 3, 3), p |-> Book(45, 50, 3, 3)],     \* dir 1 costs 99, dir 2 costs 105
      [k |-> Book(40, 60, 3, 3), p |-> Book(45, 50, 0, 0)] }    \* Polymarket sizes 0

LabFiles == {"missing", "paper_neg"}

FetchLab == FetchOf(LabViews)

CtlWriteLab ==
    /\ pc \in {"start", "loop"}
    /\ \E f \in LabFiles : f # botctl_file /\ botctl_file' = f
    /\ UNCHANGED <<clock, storeVars, execVars, initial_bankroll,
                   dry_run, scanVars, kalshiVars, ctlVars, runs, exit_code, started, botctl_cache,
                   last_botctl_ts, last_settle_ts, last_trade_by_key, now,
                   snaps, ts, rows, signals, dir, attempt>>

InitLab ==
    /\ InitDaemon
    /\ KalshiOff
    /\ config \in LabConfigs
    /\ snapshots_a = <<>>
    /\ snapshots_b = <<>>
    /\ resolved_mappings = <<>>
    /\ opps = NotCalled
    /\ near_miss = NotCalled
    /\ scan_pc = "idle"
    /\ payload = NoPayload
    /\ market_raw = NoPayload
    /\ env = NoEnv
    /\ http = NoHttp

NextLab ==
    \/ Main \/ Construct \/ Boot
    \/ IterBegin
    \/ BankrollInit \/ BankrollSetLocked \/ BankrollSetPnl \/ BankrollSetFlag
    \/ Settle \/ Settled
    \/ FetchLab \/ FetchFails \/ Persist
    \/ DirEval \/ Execute \/ Executed \/ EndIteration
    \/ ExecutorStep
    \/ Interrupt \/ Tick \/ CtlWriteLab

SpecLab == InitLab /\ [][NextLab]_vars

(* C32: one precedence rule for the opportunity threshold. In the daemon's *)
(* cross-venue scan a priced direction with exec_size >=                   *)
(* min_executable_size is signalled exactly when its buf_edge is at least  *)
(* alert_threshold if alert_only is set, and at least the mode's           *)
(* min_edge_opportunity otherwise (edges here in millionths).              *)
C32_ThresholdPrecedence ==
    (pc = "end" /\ snaps.fetched) =>
      \A d \in 1..2 :
        (Paired(snaps) /\ Priced(snaps, d) /\ DirExe(snaps, d) >= config.min_executable_size) =>
          LET min_edge == (IF config.alert_only THEN config.alert_threshold
                           ELSE config.min_edge_opportunity) \div 100
          IN  (SignalRow(snaps, d, ts) \in signals) <=> (BufEdge(DirCost(snaps, d)) >= min_edge)

-----------------------------------------------------------------------------
(* Claims about the order of the evaluator's results, checked under SpecEval *)

(* lexicographic order of the market ids of the inputs *)
IdRank(id) == CASE id = "K1" -> 1 [] id = "K2" -> 2 [] id = "P1" -> 3

Precedes(e1, x1, m1, e2, x2, m2) ==
    \/ e1 > e2
    \/ e1 = e2 /\ x1 > x2
    \/ e1 = e2 /\ x1 = x2 /\ IdRank(m1) <= IdRank(m2)

(* C33: the evaluator's results are ordered by buf_edge descending, among  *)
(* equal buf_edge by larger exec_size first and then by the smaller        *)
(* a_market_id.                                                            *)
C33_ResultOrder ==
    /\ (opps.called /\ opps.raised = "none") =>
         \A i, j \in DOMAIN opps.list :
           i < j => Precedes(opps.list[i].edge, opps.list[i].executable_size,
                             opps.list[i].yes_market,
                             opps.list[j].edge, opps.list[j].executable_size,
                             opps.list[j].yes_market)
    /\ near_miss.called =>
         \A i, j \in DOMAIN near_miss.rows :
           i < j =>
             LET a(r) == IF snapshots_b = <<>> THEN r.market_id ELSE r.market_id[1]
             IN  Precedes(near_miss.rows[i].edge, near_miss.rows[i].executable_size,
                          a(near_miss.rows[i]),
                          near_miss.rows[j].edge, near_miss.rows[j].executable_size,
                          a(near_miss.rows[j]))

-----------------------------------------------------------------------------
(* The evaluator on lists in which snapshots share a question *)

SymA ==
    {MarketSnapshot("Kalshi", "K1", "q1", {"yes", "no"}, 4000, 6100, 10, 10),
     MarketSnapshot("Kalshi", "K2", "q1", {"yes", "no"}, 5200, 6500, 10, 10)}

SymB ==
    {MarketSnapshot("Polymarket", "P1", "q1", {"yes", "no"}, 4500, 5000, 10, 10),
     MarketSnapshot("Polymarket", "P2", "q2", {"yes", "no"}, 4500, 5000, 10, 10)}

ListsOf(S) == {<<x>> : x \in S} \cup {<<x, y>> : <<x, y>> \in {p \in S \X S : p[1] # p[2]}}

InitSym ==
    /\ InitDaemon
    /\ KalshiOff
    /\ dry_run = TRUE
    /\ config \in Configs
    /\ snapshots_a \in ListsOf(SymA)
    /\ snapshots_b \in ListsOf(SymB)
    /\ resolved_mappings = <<>>
    /\ opps = NotCalled
    /\ near_miss = NotCalled
    /\ scan_pc = "evaluate"
    /\ payload = NoPayload
    /\ market_raw = NoPayload
    /\ env = NoEnv
    /\ http = NoHttp

SpecSym == InitSym /\ [][NextEval]_vars

Outcome(r) ==
    [raised |-> r.raised,
     results |-> {<<r.list[i].buy_yes_venue, r.list[i].buy_yes_price,
                    r.list[i].buy_no_venue, r.list[i].buy_no_price,
                    r.list[i].sum_price, r.list[i].edge, r.list[i].executable_size>>
                    : i \in DOMAIN r.list}]

(* C34: symmetry of directions. compute_opportunities(A, B) and            *)
(* compute_opportunities(B, A) yield the same set of (buy-yes venue,       *)
(* buy-yes price, buy-no venue, buy-no price, cost, edge, exec_size)       *)
(* results, also when several snapshots share a question.                  *)
C34_Symmetry ==
    opps.called =>
      Outcome(opps) = Outcome(compute_opportunities(snapshots_b, snapshots_a, <<>>, config))

-----------------------------------------------------------------------------
(* The evaluator run on the same snapshots under mode safe and, through    *)
(* apply_mode, under mode lab                                              *)

apply_mode(cfg, mode, weird_env) ==
    LET md == _mode_defaults(mode, weird_env) IN
    [cfg EXCEPT !.mode = md.mode,
                !.min_edge_opportunity = md.min_edge_opportunity,
                !.min_executable_size = md.min_executable_size,
                !.near_miss_edge_floor = md.near_miss_edge_floor,
                !.near_miss_edge_ceiling = md.near_miss_edge_ceiling,
                !.near_miss_include_weird_sums = md.near_miss_include_weird_sums]

LongIds ==
    <<"K01", "K02", "K03", "K04", "K05", "K06", "K07", "K08", "K09", "K10", "K11",
      "K12", "K13", "K14", "K15", "K16", "K17", "K18", "K19", "K20", "K21">>

(* twenty thin books (size 5, cost 0.95) and one thick book (size 10, cost 1.00) *)
LongList ==
    [i \in DOMAIN LongIds |->
       IF i < Len(LongIds)
       THEN MarketSnapshot("Kalshi", LongIds[i], LongIds[i], {"yes", "no"}, 4000, 5500, 5, 5)
       ELSE MarketSnapshot("Kalshi", LongIds[i], LongIds[i], {"yes", "no"}, 4800, 5200, 10, 10)]

ModeOpportunities ==
    /\ scan_pc = "evaluate"
    /\ opps = NotCalled
    /\ \E w \in BOOLEAN :
         LET safe == compute_opportunities(snapshots_a, snapshots_b, resolved_mappings, config)
             lab == compute_opportunities(snapshots_a, snapshots_b, resolved_mappings,
                                          apply_mode(config, "lab", w))
         IN  opps' = [called |-> TRUE, raised |-> safe.raised, list |-> safe.list,
                      lab_raised |-> lab.raised, lab_list |-> lab.list]
    /\ UNCHANGED near_miss
    /\ ScanUnchanged

ModeNearMiss ==
    /\ scan_pc = "evaluate"
    /\ near_miss = NotCalled
    /\ \E w \in BOOLEAN :
         near_miss' =
           [called |-> TRUE,
            rows |-> format_near_miss_pairs_table(snapshots_a, snapshots_b,
                                                  resolved_mappings, config).rows,
            lab_rows |-> format_near_miss_pairs_table(snapshots_a, snapshots_b,
                                                      resolved_mappings,
                                                      apply_mode(config, "lab", w)).rows]
    /\ UNCHANGED opps
    /\ ScanUnchanged

InitMode ==
    /\ InitDaemon
    /\ KalshiOff
    /\ dry_run = TRUE
    /\ config \in {c \in Configs : c.mode = "safe"}
    /\ snapshots_a \in {<<x>> : x \in SnapsA} \cup {LongList}
    /\ snapshots_b \in {<<>>} \cup {<<x>> : x \in SnapsB}
    /\ resolved_mappings = <<>>
    /\ opps = NotCalled
    /\ near_miss = NotCalled
    /\ scan_pc = "evaluate"
    /\ payload = NoPayload
    /\ market_raw = NoPayload
    /\ env = NoEnv
    /\ http = NoHttp

NextMode == ModeOpportunities \/ ModeNearMiss

SpecMode == InitMode /\ [][NextMode]_vars

SafeWithinLab ==
    opps.called =>
      /\ opps.raised = "TypeError" => opps.lab_raised = "TypeError"
      /\ Range(opps.list) \subseteq Range(opps.lab_list)

(* C35 as stated: every opportunity under safe is an opportunity under     *)
(* lab, and every near-miss reported under safe is reported under lab.     *)
C35_ModeContract_Original ==
    /\ SafeWithinLab
    /\ near_miss.called => Range(near_miss.rows) \subseteq Range(near_miss.lab_rows)

(* C35 amended: every opportunity under safe is an opportunity under lab,  *)
(* and every near-miss reported under safe is reported under lab whenever  *)
(* the lab table holds fewer rows than its limit of 20, i.e. was not cut.  *)
C35_ModeContract ==
    /\ SafeWithinLab
    /\ (near_miss.called /\ Len(near_miss.lab_rows) < TableLimit) =>
          Range(near_miss.rows) \subseteq Range(near_miss.lab_rows)

C35_Witness ==
    /\ near_miss.called
    /\ near_miss.rows # <<>>
    /\ Len(near_miss.lab_rows) < TableLimit
    /\ Len(near_miss.lab_rows) > Len(near_miss.rows)

(* C37: every paper trade the daemon opens has 0 < size <= the available   *)
(* size of each of its two legs, for every allowed configuration           *)
(* (min_executable_size = 0 and Polymarket sizes 0 included), and no       *)
(* try_execute issued by the daemon fails with insufficient_liquidity.     *)
C37_TradeWithinLiquidity ==
    /\ \A i \in DOMAIN paper_trades : paper_trades[i].size > 0
    /\ (pc \in ExecPcs /\ plan # NoPlan) =>
          /\ plan.size > 0
          /\ \A l \in 1..2 : plan.size <= plan.legs[l].size_avail
    /\ (pc = "executed" /\ result # NoResult /\ ~result.ok) =>
          result.reason # "insufficient_liquidity"

(* C38: the cost locked by a single paper trade (size * sum_price) never   *)
(* exceeds the control plane's max_per_trade in force in the iteration     *)
(* that opened the trade.                                                  *)
C38_CostWithinMaxPerTrade ==
    (pc \in ExecPcs /\ ret = "executed") =>
        loc.cost <= max_per_trade(botctl_cache)

FlagIsTrue(st) == "bankroll_set" \in DOMAIN st /\ st["bankroll_set"] = TRUE

BalanceKeys == {"free_balance", "locked_balance", "realized_pnl"}

(* C39: paper balances are initialised at most once per store.  Once       *)
(* bankroll_set is true it stays true, and no step of a later iteration,   *)
(* of a restarted daemon, of the PaperExecutor constructor, nor a change   *)
(* of the control-plane bankroll writes free_balance, locked_balance or    *)
(* realized_pnl: only steps of try_execute and maybe_settle change them.   *)
C39_InitialisedOnce ==
    [][FlagIsTrue(paper_state) =>
         /\ FlagIsTrue(paper_state')
         /\ BalanceKeys \subseteq DOMAIN paper_state'
         /\ (\E k \in BalanceKeys : paper_state'[k] # paper_state[k]) =>
               pc \in {"x_free", "x_locked", "x_pnl", "s_free", "s_locked", "s_pnl"}]_vars

C39_Witness ==
    /\ FlagIsTrue(paper_state)
    /\ runs = 2
    /\ pc = "settle"
    /\ bankroll(botctl_cache) # initial_bankroll
    /\ paper_state["locked_balance"] > 0

(***************************************************************************)
(* The daemon loop that keeps running: no KeyboardInterrupt, and a scan    *)
(* that may raise in every iteration (universe refresh or snapshot fetch). *)
(* The handler of daemon.py:537-545 sleeps backoff.next_sleep() and        *)
(* continues the loop; the backoff delay is capped, so the counter of      *)
(* consecutive failures saturates at MaxAttempt.                           *)
(***************************************************************************)
ScanFails ==
    /\ pc = "scan"
    /\ attempt' = Min(attempt + 1, MaxAttempt)
    /\ started' = started \cup {"net"}
    /\ pc' = "loop"
    /\ UNCHANGED <<clock, storeVars, ret, plan, loc, result, pre, initial_bankroll,
                   dry_run, scanVars, kalshiVars, runs, exit_code, botctl_file, ctlVars, botctl_cache,
                   last_botctl_ts, last_settle_ts, last_trade_by_key, now, snaps, ts,
                   rows, signals, dir>>

SettleFiles == {"missing", "paper"}

CtlWriteSettle ==
    /\ pc \in {"start", "loop"}
    /\ \E f \in SettleFiles : f # botctl_file /\ botctl_file' = f
    /\ UNCHANGED <<clock, storeVars, execVars, initial_bankroll,
                   dry_run, scanVars, kalshiVars, ctlVars, runs, exit_code, started, botctl_cache,
                   last_botctl_ts, last_settle_ts, last_trade_by_key, now,
                   snaps, ts, rows, signals, dir, attempt>>

(* the steps of the daemon process itself *)
DaemonStep ==
    \/ Main \/ Construct \/ Boot
    \/ IterBegin
    \/ BankrollInit \/ BankrollSetLocked \/ BankrollSetPnl \/ BankrollSetFlag
    \/ Settle \/ Settled
    \/ Fetch \/ ScanFails \/ Persist
    \/ DirEval \/ Execute \/ Executed \/ EndIteration
    \/ ExecutorStep

NextSettle ==
    \/ Main \/ Construct \/ Boot
    \/ IterBegin
    \/ BankrollInit \/ BankrollSetLocked \/ BankrollSetPnl \/ BankrollSetFlag
    \/ Settle \/ Settled
    \/ Fetch \/ ScanFails \/ Persist
    \/ DirEval \/ Execute \/ Executed \/ EndIteration
    \/ ExecutorStep
    \/ Tick \/ CtlWriteSettle

(* the process is scheduled: a daemon step that stays possible is taken *)
SpecSettle == Init /\ [][NextSettle]_vars /\ WF_vars(DaemonStep)

OpenAndDue(i) ==
    /\ i \in DOMAIN paper_trades
    /\ paper_trades[i].status = "open"
    /\ clock - paper_trades[i].ts_open >= SettleAfterSecs

Closed(i) == i \in DOMAIN paper_trades /\ paper_trades[i].status = "closed"

(* C40: settlement makes progress independently of the network.  While the *)
(* daemon loop keeps running, every open paper trade that is older than    *)
(* settle_after_secs is eventually closed, also when every scan fails and  *)
(* the loop stays in backoff.                                              *)
C40_SettlementProgress ==
    \A i \in 1..MaxTrades : OpenAndDue(i) ~> Closed(i)

C40_Witness ==
    /\ Closed(1)
    /\ attempt = MaxAttempt
    /\ pc = "loop"
    /\ snaps = NoSnaps

(***************************************************************************)
(* The venue HTTP clients: the retry loops of KalshiPublicClient._get and  *)
(* PolymarketPublicClient._get_json.  One action is one pass of the loop   *)
(* body: the request, the classification of its response and the sleep     *)
(* that precedes the next pass (time.sleep returns, every request carries  *)
(* a timeout).                                                             *)
(***************************************************************************)
DefaultHttpAttempts == 2

(* values of KALSHI_HTTP_ATTEMPTS / POLY_HTTP_ATTEMPTS *)
HttpAttemptsEnv == {0 - 1, 0, 1, DefaultHttpAttempts, 3}

Clients == {"kalshi", "polymarket"}

(* what session.get hands back: a response with a status, a 2xx body that   *)
(* is not JSON, or a requests.RequestException                              *)
KalshiResponses == {"ok", "bad_json", "429", "5xx", "4xx", "exception"}

(* what urlopen hands back: a response object (2xx, or a status the opener  *)
(* let through), an HTTPError with a code, a URLError, or another exception *)
PolyResponses == {"ok", "bad_json", "resp_429", "resp_5xx", "http_429", "http_5xx",
                  "http_4xx", "urlerror", "exception"}

(* attempts = max(1, int(self.http_attempts)) *)
Attempts_unclamped(http_attempts) == http_attempts

Attempts(http_attempts) == Max(1, http_attempts)

(* the except branches that retry unless this is the last pass; k is the  *)
(* loop variable attempt                                                   *)
RetryUnlessLast(k, attempts) ==
    IF k >= attempts - 1 THEN "raise" ELSE "continue"

(* one pass of the loop body of _get.  resp.json() on a body that is not    *)
(* JSON raises a RequestException in requests >= 2.27 and a plain           *)
(* ValueError before: json_exc_is_request_exc chooses between the two.      *)
_get(resp, k, attempts, json_exc_is_request_exc) ==
    CASE resp = "ok"        -> "return"
      [] resp = "429"       -> "continue"
      [] resp = "5xx"       -> IF k < attempts - 1 THEN "continue"
                               ELSE RetryUnlessLast(k, attempts)
      [] resp = "4xx"       -> RetryUnlessLast(k, attempts)
      [] resp = "exception" -> RetryUnlessLast(k, attempts)
      [] resp = "bad_json"  -> IF json_exc_is_request_exc
                               THEN RetryUnlessLast(k, attempts)
                               ELSE "raise"

(* one pass of the loop body of _get_json.  A 5xx response object on the    *)
(* last pass falls through to json.loads(body): body_is_json says whether   *)
(* that body decodes.                                                       *)
_get_json(resp, k, attempts, body_is_json) ==
    CASE resp = "ok"        -> "return"
      [] resp = "bad_json"  -> RetryUnlessLast(k, attempts)
      [] resp = "resp_429"  -> "continue"
      [] resp = "resp_5xx"  -> IF k < attempts - 1 THEN "continue"
                               ELSE IF body_is_json THEN "return"
                               ELSE RetryUnlessLast(k, attempts)
      [] resp = "http_429"  -> IF k < attempts - 1 THEN "continue" ELSE "raise"
      [] resp = "http_5xx"  -> IF k < attempts - 1 THEN "continue" ELSE "raise"
      [] resp = "http_4xx"  -> "raise"
      [] resp = "urlerror"  -> "raise"
      [] resp = "exception" -> RetryUnlessLast(k, attempts)

(* the request record after a pass that ended with the given verdict *)
AfterPass(h, resp, verdict) ==
    [h EXCEPT !.requests = @ + 1,
              !.last = resp,
              !.attempt = IF verdict = "continue" THEN @ + 1 ELSE @,
              !.outcome = CASE verdict = "return" -> "returned"
                            [] verdict = "raise"  -> "raised"
                            [] OTHER              -> "running"]

HttpUnchanged ==
    UNCHANGED <<clock, storeVars, execVars, initial_bankroll, dry_run, kalshiVars,
                runs, exit_code, started, botctl_file, ctlVars, botctl_cache,
                last_botctl_ts, last_settle_ts, last_trade_by_key, now,
                snaps, ts, rows, signals, dir, attempt,
                config, snapshots_a, snapshots_b, resolved_mappings, opps, near_miss,
                scan_pc, payload, market_raw, env>>

(* a caller enters _get / _get_json: attempts is computed, the loop starts *)
HttpCall ==
    /\ http.outcome # "running"
    /\ \E c \in Clients, n \in HttpAttemptsEnv :
         http' = [client |-> c, http_attempts |-> n, attempts |-> Attempts(n),
                  attempt |-> 0, requests |-> 0, last |-> "none", outcome |-> "running"]
    /\ HttpUnchanged

KalshiPass ==
    /\ http.outcome = "running"
    /\ http.client = "kalshi"
    /\ http.attempt < http.attempts
    /\ \E resp \in KalshiResponses, j \in BOOLEAN :
         http' = AfterPass(http, resp, _get(resp, http.attempt, http.attempts, j))
    /\ HttpUnchanged

PolyPass ==
    /\ http.outcome = "running"
    /\ http.client = "polymarket"
    /\ http.attempt < http.attempts
    /\ \E resp \in PolyResponses, j \in BOOLEAN :
         http' = AfterPass(http, resp, _get_json(resp, http.attempt, http.attempts, j))
    /\ HttpUnchanged

(* the for loop ran out: raise RuntimeError *)
HttpExhausted ==
    /\ http.outcome = "running"
    /\ http.attempt >= http.attempts
    /\ http' = [http EXCEPT !.outcome = "raised", !.last = "RuntimeError"]
    /\ HttpUnchanged

InitHttp ==
    /\ InitDaemon
    /\ KalshiOff
    /\ dry_run = TRUE
    /\ ScannerIdle

HttpLoop == KalshiPass \/ PolyPass \/ HttpExhausted

NextHttp == HttpCall \/ KalshiPass \/ PolyPass \/ HttpExhausted

(* the interpreter keeps executing a call that has been entered *)
SpecHttp == InitHttp /\ [][NextHttp]_vars /\ WF_vars(HttpLoop)

HttpBounded ==
    (http.outcome # "none") =>
        /\ http.attempts >= 1
        /\ http.attempts >= http.http_attempts
        /\ (http.http_attempts >= 1 => http.attempts = http.http_attempts)
        /\ http.requests <= http.attempts
        /\ (http.outcome # "running" => http.requests >= 1)
        /\ (http.outcome = "returned" => http.last \in {"ok", "resp_5xx"})

(* C36: every venue HTTP request makes at least one and at most            *)
(* max(1, configured) attempts (the default of 2 included), and a call     *)
(* that was entered always ends, either returning a decoded payload or     *)
(* raising to its caller, whatever the venue answers (429, 5xx, other      *)
(* status, body that is not JSON, network exception).                      *)
C36_BoundedRetries ==
    /\ []HttpBounded
    /\ ((http.outcome = "running") ~> (http.outcome \in {"returned", "raised"}))

C36_Witness ==
    /\ http.outcome = "raised"
    /\ http.http_attempts = DefaultHttpAttempts
    /\ http.requests = 2
    /\ http.last = "RuntimeError"

====
